---- MODULE Spec2Model ----
(***************************************************************************)
(* Scenario lifecycle of the dbeerer CLI (internal/scenarios/manager.go).  *)
(*                                                                         *)
(* The cluster is modelled by four pieces of shared state: the             *)
(* ActiveScenario custom resources (store), the Helm releases, the         *)
(* namespaces and the ScenarioDefinition resources (definitions).  Every   *)
(* CLI invocation is a process that walks through the statements of        *)
(* InstallScenario, UninstallScenario or UpdateActiveScenarioStatus; one   *)
(* step is one call to an external system (API server, helm, kubectl,      *)
(* git, the file system), whose outcome is chosen nondeterministically.    *)
(***************************************************************************)
EXTENDS Naturals, Sequences, FiniteSets, TLC

(***************************************************************************)
(* Names                                                                   *)
(***************************************************************************)

\* the metadata.name used by every Get/Create/UpdateStatus/Delete
ActiveScenarioName == "current-playground-scenario"

\* a name derived from the scenario id (never used by the code)
NameFromScenarioID(scenarioID) == "active-" \o scenarioID

getHelmReleaseName(scenarioID) == "devopsbeerer-" \o scenarioID

\* the namespace of the start command: the scenario id itself
NamespaceIsScenarioID(scenarioID) == scenarioID

getHelmNamespace(scenarioID) == "devopsbeerer-" \o scenarioID

\* the default repository cloned when helmChart.link is empty
DefaultRepoURL == "https://github.com/DevOpsBeerer/playground-scenarios-charts.git"

(***************************************************************************)
(* Inputs                                                                  *)
(***************************************************************************)

Procs == {"p1", "p2"}

\* how many scenarios the cluster defines
MaxScenarios == 2

IDPool == << "a", "b", "c", "d" >>

CatalogIDs == {IDPool[i] : i \in 1 .. MaxScenarios}

\* ids a caller may pass; "x" names no ScenarioDefinition
RequestIDs == CatalogIDs \cup {"x"}

Phases == {"Pending", "Deploying", "Running"}

\* a ScenarioDefinition with a spec; every other one names its repository
\* and leaves the chart directory to default to the id, the rest name a
\* directory and leave the repository to default
Definition(i) ==
    [hasSpec |-> TRUE, hasId |-> TRUE, id |-> IDPool[i],
     name |-> "Scenario " \o IDPool[i],
     link |-> IF i % 2 = 1 THEN "https://example.org/charts.git" ELSE "",
     dir |-> IF i % 2 = 1 THEN "" ELSE "chart-" \o IDPool[i]]

\* a ScenarioDefinition without a spec map
DefinitionWithoutSpec ==
    [hasSpec |-> FALSE, hasId |-> FALSE, id |-> "", name |-> "",
     link |-> "", dir |-> ""]

\* a ScenarioDefinition whose spec has no id
DefinitionWithoutID ==
    [hasSpec |-> TRUE, hasId |-> FALSE, id |-> "", name |-> "Scenario without id",
     link |-> "", dir |-> ""]

\* a second ScenarioDefinition that carries the id of the first
DefinitionSameID ==
    [Definition(1) EXCEPT !.name = "Another " \o IDPool[1]]

\* how many resources a list response holds at most
MaxItems == 3

\* the resources a list response is made of
DefinitionKinds ==
    {Definition(1), Definition(2), DefinitionWithoutSpec, DefinitionWithoutID,
     DefinitionSameID}

\* the ids the catalog is asked for: of a scenario, of none, and the empty one
LookupIDs == {IDPool[1], IDPool[2], "x", ""}

\* the list responses: every sequence of at most MaxItems resources
ListResponses ==
    UNION {[1 .. n -> DefinitionKinds] : n \in 0 .. MaxItems}

\* the ScenarioDefinition resources of the cluster, in list order; the
\* second one has no spec map
ClusterDefinitions ==
    << Definition(1), DefinitionWithoutSpec >>
       \o [i \in 1 .. MaxScenarios - 1 |-> Definition(i + 1)]

(***************************************************************************)
(* Scenario catalog                                                        *)
(***************************************************************************)

NoScenario == [Name |-> "", ID |-> "", Link |-> "", Dir |-> "", found |-> FALSE]

\* unstructuredToScenario: the fields of spec that are present are copied
unstructuredToScenario(obj) ==
    [Name |-> obj.name,
     ID |-> IF obj.hasId THEN obj.id ELSE "",
     Link |-> obj.link,
     Dir |-> obj.dir,
     found |-> TRUE]

RECURSIVE ConvertAll(_)
ConvertAll(items) ==
    IF items = << >> THEN << >>
    ELSE IF ~Head(items).hasSpec
         THEN ConvertAll(Tail(items))
         ELSE << unstructuredToScenario(Head(items)) >> \o ConvertAll(Tail(items))

\* a ListScenarios that gives up on a list with a resource it cannot convert
ListScenariosStrict(items) ==
    IF \E i \in 1 .. Len(items) : ~items[i].hasSpec
    THEN << >> ELSE ConvertAll(items)

\* ListScenarios on a successful List call
ListScenarios(items) == ConvertAll(items)

\* a search that returns the last scenario with the id
LastWithID(scenarios, id) ==
    LET S == {i \in 1 .. Len(scenarios) : scenarios[i].ID = id}
    IN  IF S = {} THEN NoScenario
        ELSE scenarios[CHOOSE i \in S : \A j \in S : j <= i]

RECURSIVE FirstWithID(_, _)
FirstWithID(scenarios, id) ==
    IF scenarios = << >> THEN NoScenario
    ELSE IF Head(scenarios).ID = id THEN Head(scenarios)
         ELSE FirstWithID(Tail(scenarios), id)

\* a lookup that finds a scenario for every id
GetScenarioAny(items, id, listOk) ==
    [NoScenario EXCEPT !.found = TRUE, !.ID = id]

\* GetScenario: the scenario found, or NoScenario (an error); listOk is the
\* outcome of the List call
GetScenario(items, id, listOk) ==
    IF listOk THEN FirstWithID(ListScenarios(items), id) ELSE NoScenario

\* FindScenario (lines 566-580): the same loop over the same list
FindScenario(items, id, listOk) ==
    IF listOk THEN FirstWithID(ListScenarios(items), id) ELSE NoScenario

ErrList == "failed to list scenario definitions"

\* the errors of lines 563 and 579
ErrGetNotFound == "scenario with ID not found"

ErrFindNotFound == "scenario not found"

(***************************************************************************)
(* State                                                                   *)
(***************************************************************************)

VARIABLES
    definitions,  \* the ScenarioDefinition resources (read only)
    store,        \* ActiveScenario resources: name -> object
    releases,     \* Helm release name -> "absent" | "deployed" | "failed"
    namespaces,   \* the scenario namespaces that exist
    leaked,       \* a temporary directory outlived the invocation that made it
    pc,           \* each invocation's position
    local,        \* each invocation's arguments and local variables
    fs,           \* what exists of each invocation's temporary directory
    trace,        \* the mutating external calls of the invocation, in order
    result,       \* what the invocation returned
    clock,        \* the wall clock, in seconds
    host          \* what the setup scripts have installed on the machine

vars == << definitions, store, releases, namespaces, leaked,
           pc, local, fs, trace, result, clock, host >>

ReleaseNames == {getHelmReleaseName(s) : s \in CatalogIDs}

NoObject == [scenarioId |-> "", hasStatus |-> FALSE, phase |-> "",
             helmReleaseName |-> "", scenarioName |-> "",
             startTime |-> 0, lastTransitionTime |-> 0]

NoLocal == [op |-> "none", scenarioID |-> "", phase |-> "", helmRelease |-> "",
            retpc |-> "", nested |-> FALSE, scenario |-> NoScenario,
            activeID |-> "", current |-> NoObject, fresh |-> FALSE,
            raced |-> FALSE, listed |-> << >>,
            chartID |-> << >>, tarball |-> << >>, pos |-> 0]

Event(ev, name, arg, ok) == [ev |-> ev, name |-> name, arg |-> arg, ok |-> ok]

Log(p, e) == trace' = [trace EXCEPT ![p] = Append(@, e)]

\* a write to the store makes every object read earlier by another
\* invocation stale (its resourceVersion no longer matches)
Outdate(l, p) ==
    [q \in Procs |-> IF q = p THEN l[q] ELSE [l[q] EXCEPT !.fresh = FALSE]]

Exists(name) == name \in DOMAIN store

\* a Delete that leaves the object in place
KeepObject(name) == store

Remove(name) == [n \in DOMAIN store \ {name} |-> store[n]]

Init ==
    /\ definitions = ClusterDefinitions
    /\ store = [n \in {} |-> NoObject]
    /\ releases = [r \in ReleaseNames |-> "absent"]
    /\ namespaces = {}
    /\ leaked = FALSE
    /\ pc = [p \in Procs |-> "idle"]
    /\ local = [p \in Procs |-> NoLocal]
    /\ fs = [p \in Procs |-> {}]
    /\ trace = [p \in Procs |-> << >>]
    /\ result = [p \in Procs |-> "none"]
    /\ clock = 0
    /\ host = {}

\* GetActiveScenario (lines 582-615) on a successful Get: absent, or the
\* id, the phase and the name of the record
GetActiveScenario ==
    IF Exists(ActiveScenarioName)
    THEN [found |-> TRUE,
          ScenarioID |-> store[ActiveScenarioName].scenarioId,
          Phase |-> store[ActiveScenarioName].phase,
          ScenarioName |-> store[ActiveScenarioName].scenarioName]
    ELSE [found |-> FALSE, ScenarioID |-> "", Phase |-> "", ScenarioName |-> ""]

(***************************************************************************)
(* Returning                                                               *)
(***************************************************************************)

\* the invocation's top-level function returns err ("ok" for nil)
Return(p, err) ==
    /\ pc' = [pc EXCEPT ![p] = "done"]
    /\ result' = [result EXCEPT ![p] = err]

\* the process ends; what is left of its temporary directory stays on disk
Exit(p) ==
    /\ pc[p] = "done"
    /\ pc' = [pc EXCEPT ![p] = "idle"]
    /\ local' = [local EXCEPT ![p] = NoLocal]
    /\ trace' = [trace EXCEPT ![p] = << >>]
    /\ result' = [result EXCEPT ![p] = "none"]
    /\ leaked' = (leaked \/ fs[p] # {})
    /\ fs' = [fs EXCEPT ![p] = {}]
    /\ UNCHANGED << clock, host, definitions, store, releases, namespaces >>

(***************************************************************************)
(* UpdateActiveScenarioStatus (also the tail of three InstallScenario      *)
(* steps): Get, GetScenario, UpdateStatus                                  *)
(***************************************************************************)

\* lines 370-388: Get the singleton, then look the scenario name up
GetForStatusName == ActiveScenarioName

\* an InstallScenario that gives up when its status update fails
StatusFailureAborts(p, err) ==
    IF local[p].op = "update" \/ err # "ok"
    THEN Return(p, err)
    ELSE /\ pc' = [pc EXCEPT ![p] = local[p].retpc]
         /\ UNCHANGED result

StatusReturn(p, err) ==
    IF local[p].op = "update"
    THEN Return(p, err)
    ELSE /\ pc' = [pc EXCEPT ![p] = local[p].retpc]   \* a warning is printed
         /\ UNCHANGED result

\* back in InstallScenario the object that UpdateActiveScenarioStatus read
\* is out of scope
Forget(l) ==
    IF l.op = "update" THEN l
    ELSE [l EXCEPT !.current = NoObject, !.fresh = FALSE]

\* the trace records the status update asked for and whether it was
\* written, whichever of the two calls failed
UpdateStatus_Get(p) ==
    /\ pc[p] = "s_get"
    /\ \E ok \in BOOLEAN :
        IF ok /\ Exists(GetForStatusName)
        THEN /\ local' = [local EXCEPT ![p].current = store[GetForStatusName],
                                       ![p].fresh = TRUE]
             /\ pc' = [pc EXCEPT ![p] = "s_update"]
             /\ UNCHANGED << result, trace >>
        ELSE /\ StatusReturn(p, "get failed")
             /\ Log(p, Event("update_status", GetForStatusName,
                             local[p].phase, FALSE))
             /\ UNCHANGED local
    /\ UNCHANGED << clock, host, definitions, store, releases, namespaces, leaked, fs >>

\* the order of the phases
Rank(phase) ==
    CASE phase = "Pending" -> 1
      [] phase = "Deploying" -> 2
      [] phase = "Running" -> 3
      [] OTHER -> 0

\* a status map that keeps the current phase when the requested one is
\* earlier (what a forward-only update would send)
NewStatusForwardOnly(current, phase, helmRelease, scenario) ==
    [current EXCEPT !.hasStatus = TRUE,
                    !.phase = IF Rank(phase) < Rank(current.phase)
                              THEN current.phase ELSE phase,
                    !.helmReleaseName = helmRelease,
                    !.startTime = clock,
                    !.lastTransitionTime = clock,
                    !.scenarioName = IF scenario.found THEN scenario.Name ELSE ""]

\* the status map written by lines 378-388: both times are the time of
\* the call (RFC3339, whole seconds); scenarioName only when the catalog
\* lookup succeeded
NewStatus(current, phase, helmRelease, scenario) ==
    [current EXCEPT !.hasStatus = TRUE,
                    !.phase = phase,
                    !.helmReleaseName = helmRelease,
                    !.startTime = clock,
                    !.lastTransitionTime = clock,
                    !.scenarioName = IF scenario.found THEN scenario.Name ELSE ""]

\* a status write that loses the phase
StatusWriteWithoutPhase(stored, sent) ==
    [stored EXCEPT !.hasStatus = sent.hasStatus,
                   !.helmReleaseName = sent.helmReleaseName,
                   !.startTime = sent.startTime,
                   !.lastTransitionTime = sent.lastTransitionTime,
                   !.scenarioName = sent.scenarioName]

\* what UpdateStatus stores: the status of the object sent, the spec of the
\* object stored (the status subresource ignores changes to spec)
StatusWrite(stored, sent) ==
    [stored EXCEPT !.hasStatus = sent.hasStatus,
                   !.phase = sent.phase,
                   !.helmReleaseName = sent.helmReleaseName,
                   !.startTime = sent.startTime,
                   !.lastTransitionTime = sent.lastTransitionTime,
                   !.scenarioName = sent.scenarioName]

UpdateStatus_Update(p) ==
    /\ pc[p] = "s_update"
    /\ \E ok \in BOOLEAN, listOk \in BOOLEAN :
        LET scenario == GetScenario(definitions, local[p].scenarioID, listOk)
            sent == NewStatus(local[p].current, local[p].phase,
                              local[p].helmRelease, scenario)
            done == ok /\ Exists(ActiveScenarioName) /\ local[p].fresh
        IN  /\ IF done
               THEN /\ store' = [store EXCEPT ![ActiveScenarioName] =
                                     StatusWrite(@, sent)]
                    /\ local' = [Outdate(local, p) EXCEPT ![p] = Forget(@)]
               ELSE /\ local' = [local EXCEPT ![p] = Forget(@)]
                    /\ UNCHANGED store
            /\ Log(p, Event("update_status", ActiveScenarioName, local[p].phase, done))
            /\ StatusReturn(p, IF done THEN "ok" ELSE "update failed")
    /\ UNCHANGED << clock, host, definitions, releases, namespaces, leaked, fs >>

\* a call of the exported UpdateActiveScenarioStatus
CallUpdateActiveScenarioStatus(p, scenarioID, phase) ==
    /\ pc[p] = "idle"
    /\ pc' = [pc EXCEPT ![p] = "s_get"]
    /\ local' = [local EXCEPT ![p] = [NoLocal EXCEPT
                    !.op = "update", !.scenarioID = scenarioID, !.phase = phase,
                    !.helmRelease = getHelmReleaseName(scenarioID)]]
    /\ UNCHANGED << clock, host, definitions, store, releases, namespaces, leaked, fs,
                    trace, result >>

\* an install that reports Running before Helm ran
PhaseBeforeInstallRunning == "Running"

\* an install that never gets past Deploying
PhaseAfterInstallDeploying == "Deploying"

\* the phases InstallScenario writes (lines 184, 203, 217)
PhaseAfterCreate == "Pending"

PhaseBeforeInstall == "Deploying"

PhaseAfterInstall == "Running"

\* InstallScenario calling UpdateActiveScenarioStatus(scenarioID, phase,
\* getHelmReleaseName(scenarioID)) and going on at retpc whatever it returns
StartStatusUpdate(l, phase, retpc) ==
    [l EXCEPT !.phase = phase, !.retpc = retpc,
              !.helmRelease = getHelmReleaseName(l.scenarioID)]

(***************************************************************************)
(* UninstallScenario                                                       *)
(***************************************************************************)

\* an InstallScenario that gives up with what the uninstall returned
UninstallEndsInstall(p, err) == Return(p, err)

\* UninstallScenario returns err: to the CLI, or into InstallScenario, which
\* prints a warning and goes on to create the record
UninstallReturn(p, err) ==
    IF local[p].nested
    THEN /\ pc' = [pc EXCEPT ![p] = "i_create"]
         /\ UNCHANGED result
    ELSE Return(p, err)

CallUninstallScenario(p) ==
    /\ pc[p] = "idle"
    /\ pc' = [pc EXCEPT ![p] = "u_get"]
    /\ local' = [local EXCEPT ![p] = [NoLocal EXCEPT !.op = "uninstall"]]
    /\ UNCHANGED << clock, host, definitions, store, releases, namespaces, leaked, fs,
                    trace, result >>

\* an UninstallScenario that forgets the Helm uninstall
UninstallSkipsHelm == "u_delete"

\* with the record read, UninstallScenario goes on to the Helm uninstall
\* (lines 255-261)
AfterUninstallGet == "u_helm"

\* an UninstallScenario that reports success when it found nothing
NoRecordIsSuccess == "ok"

\* the error of lines 246 and 248
ErrNoActiveScenario == "no active scenario found"

\* lines 237-253: without a record (or when the Get fails) "no active
\* scenario found" is returned; helm list changes nothing
Uninstall_Get(p) ==
    /\ pc[p] = "u_get"
    /\ \E ok \in BOOLEAN :
        IF ok /\ Exists(ActiveScenarioName)
        THEN /\ local' = [local EXCEPT
                            ![p].activeID = store[ActiveScenarioName].scenarioId]
             /\ pc' = [pc EXCEPT ![p] = AfterUninstallGet]
             /\ UNCHANGED result
        ELSE /\ UninstallReturn(p, ErrNoActiveScenario)
             /\ UNCHANGED local
    /\ UNCHANGED << clock, host, definitions, store, releases, namespaces, leaked, fs, trace >>

\* helm uninstall: removes the release, or fails and leaves it; a release
\* that is absent makes it fail
HelmUninstall(rels, name, ok) ==
    IF ok /\ rels[name] # "absent" THEN [rels EXCEPT ![name] = "absent"] ELSE rels

\* an UninstallScenario that removes the namespace before the record
NamespaceBeforeRecord == "u_namespace"

\* after the Helm uninstall comes the deletion of the record (lines 268-271)
AfterHelmUninstall == "u_delete"

\* lines 255-266: the outcome is only printed
Uninstall_Helm(p) ==
    /\ pc[p] = "u_helm"
    /\ \E ok \in BOOLEAN :
        LET name == getHelmReleaseName(local[p].activeID)
            done == ok /\ releases[name] # "absent"
        IN  /\ releases' = HelmUninstall(releases, name, ok)
            /\ Log(p, Event("helm_uninstall", name, local[p].activeID, done))
    /\ pc' = [pc EXCEPT ![p] = AfterHelmUninstall]
    /\ UNCHANGED << clock, host, definitions, store, namespaces, leaked, local, fs, result >>

\* the name the record is deleted under (line 271)
UninstallDeleteName(scenarioID) == ActiveScenarioName

\* an UninstallScenario that stops once the record is deleted
StopAfterRecordDeleted == "done"

\* with the record deleted the namespace is removed (lines 278-281)
AfterRecordDeleted == "u_namespace"

\* lines 268-276
Uninstall_Delete(p) ==
    /\ pc[p] = "u_delete"
    /\ \E ok \in BOOLEAN :
        LET name == UninstallDeleteName(local[p].activeID)
            done == ok /\ Exists(name)
        IN  /\ Log(p, Event("delete", name,
                            IF done THEN store[name].scenarioId ELSE "", done))
            /\ IF done
               THEN /\ store' = Remove(name)
                    /\ local' = Outdate(local, p)
                    /\ pc' = [pc EXCEPT ![p] = AfterRecordDeleted]
                    /\ UNCHANGED result
               ELSE /\ UNCHANGED << store, local >>
                    /\ UninstallReturn(p, "failed to delete active scenario")
    /\ UNCHANGED << clock, host, definitions, releases, namespaces, leaked, fs >>

\* kubectl delete namespace: the namespace goes, and with it the workloads
\* and the release records Helm keeps in it
DeleteNamespace(ns) ==
    /\ namespaces' = namespaces \ {ns}
    /\ releases' = [r \in ReleaseNames |->
                       IF r = ns THEN "absent" ELSE releases[r]]

\* lines 278-283: the outcome is ignored
Uninstall_Namespace(p) ==
    /\ pc[p] = "u_namespace"
    /\ \E ok \in BOOLEAN :
        LET ns == getHelmNamespace(local[p].activeID)
            done == ok /\ ns \in namespaces
        IN  /\ IF done THEN DeleteNamespace(ns)
                       ELSE UNCHANGED << namespaces, releases >>
            /\ Log(p, Event("delete_namespace", ns, local[p].activeID, done))
    /\ UninstallReturn(p, "ok")
    /\ UNCHANGED << clock, host, definitions, store, leaked, local, fs >>

(***************************************************************************)
(* InstallScenario                                                         *)
(***************************************************************************)

\* an InstallScenario that has created its record and has not yet run Helm
InFlight(q) ==
    /\ local[q].op = "install"
    /\ pc[q] # "done"
    /\ \E i \in 1 .. Len(trace[q]) :
          trace[q][i].ev = "create" /\ trace[q][i].ok
    /\ \A i \in 1 .. Len(trace[q]) : trace[q][i].ev # "helm_install"

CallInstallScenario(p, scenarioID) ==
    /\ pc[p] = "idle"
    /\ pc' = [pc EXCEPT ![p] = "i_getScenario"]
    /\ local' = [local EXCEPT ![p] = [NoLocal EXCEPT
                    !.op = "install", !.scenarioID = scenarioID]]
    /\ UNCHANGED << clock, host, definitions, store, releases, namespaces, leaked, fs,
                    trace, result >>

\* lines 122-126
Install_GetScenario(p) ==
    /\ pc[p] = "i_getScenario"
    /\ \E listOk \in BOOLEAN :
        LET scenario == GetScenario(definitions, local[p].scenarioID, listOk)
        IN  IF scenario.found
            THEN /\ local' = [local EXCEPT ![p].scenario = scenario]
                 /\ pc' = [pc EXCEPT ![p] = "i_getActive"]
                 /\ UNCHANGED result
            ELSE /\ Return(p, "scenario not found")
                 /\ UNCHANGED local
    /\ UNCHANGED << clock, host, definitions, store, releases, namespaces, leaked, fs, trace >>

\* a comparison that never finds the requested scenario active
NeverAlreadyActive(currentID, scenarioID) == FALSE

\* line 146: the scenario asked for is the active one
AlreadyActive(currentID, scenarioID) == currentID = scenarioID

\* the Get finds no record while another InstallScenario that found none
\* either has still to create it
SeesAbsentTogether(p) ==
    /\ ~Exists(ActiveScenarioName)
    /\ \E q \in Procs \ {p} :
          pc[q] = "i_create" /\ local[q].op = "install" /\ ~local[q].nested

\* lines 139-158: a failed Get is taken for "no record"; raced notes, for
\* the properties, that two invocations saw no record at the same time
Install_GetActive(p) ==
    /\ pc[p] = "i_getActive"
    /\ \E ok \in BOOLEAN :
        IF ok /\ Exists(ActiveScenarioName)
        THEN LET currentID == store[ActiveScenarioName].scenarioId
             IN  IF AlreadyActive(currentID, local[p].scenarioID)
                 THEN /\ Return(p, "ok")
                      /\ UNCHANGED local
                 ELSE \* m.UninstallScenario()
                      /\ local' = [local EXCEPT ![p].nested = TRUE]
                      /\ pc' = [pc EXCEPT ![p] = "u_get"]
                      /\ UNCHANGED result
        ELSE /\ pc' = [pc EXCEPT ![p] = "i_create"]
             /\ local' = [local EXCEPT ![p].raced = SeesAbsentTogether(p)]
             /\ UNCHANGED result
    /\ UNCHANGED << clock, host, definitions, store, releases, namespaces, leaked, fs, trace >>

\* the name the record is created under (line 168)
CreateName(scenarioID) == ActiveScenarioName

\* an object created without its spec.scenarioId
NewActiveScenarioWithoutID(scenarioID) == NoObject

\* the object created (lines 163-174): a spec, no status
NewActiveScenario(scenarioID) == [NoObject EXCEPT !.scenarioId = scenarioID]

\* a Create that replaces the object that has the name
CreateOverwrites(ok, name) == ok

\* the API server rejects the Create of a name that exists (AlreadyExists)
CreateAccepted(ok, name) == ok /\ ~Exists(name)

\* lines 176-186: Create fails when the name is taken
Install_Create(p) ==
    /\ pc[p] = "i_create"
    /\ \E ok \in BOOLEAN :
        LET name == CreateName(local[p].scenarioID)
            done == CreateAccepted(ok, name)
        IN  /\ Log(p, Event("create", name, local[p].scenarioID, done))
            /\ IF done
               THEN /\ store' = (name :> NewActiveScenario(local[p].scenarioID)) @@ store
                    /\ local' = [Outdate(local, p) EXCEPT ![p] =
                                    StartStatusUpdate(local[p], PhaseAfterCreate, "i_mkdir")]
                    /\ pc' = [pc EXCEPT ![p] = "s_get"]
                    /\ UNCHANGED result
               ELSE /\ Return(p, "failed to create active scenario")
                    /\ UNCHANGED << store, local >>
    /\ UNCHANGED << clock, host, definitions, releases, namespaces, leaked, fs >>

\* downloadChart, lines 288-292
Install_MkdirTemp(p) ==
    /\ pc[p] = "i_mkdir"
    /\ \E ok \in BOOLEAN :
        /\ Log(p, Event("mkdir_temp", "devopsbeerer-chart-*", "", ok))
        /\ IF ok
           THEN /\ fs' = [fs EXCEPT ![p] = {"tempDir"}]
                /\ pc' = [pc EXCEPT ![p] = "i_clone"]
           ELSE /\ pc' = [pc EXCEPT ![p] = "i_downloadFailed"]
                /\ UNCHANGED fs
    /\ UNCHANGED << clock, host, definitions, store, releases, namespaces, leaked, local,
                    result >>

\* a downloadChart that clones helmChart.link as it is
RepoURLNoDefault(scenario) == scenario.Link

\* lines 295-298
RepoURL(scenario) == IF scenario.Link = "" THEN DefaultRepoURL ELSE scenario.Link

\* lines 309-312
ChartDir(scenario) == IF scenario.Dir = "" THEN scenario.ID ELSE scenario.Dir

\* a downloadChart that leaves its temporary directory behind
LeaveTempDir(dir) == dir

\* what downloadChart leaves of the temporary directory when it fails
\* (lines 304, 316)
AfterFailedDownload(dir) == {}

\* downloadChart, lines 300-320: git clone, then the chart directory must
\* be in the clone; the event records whether downloadChart returned a
\* chart path
Install_Clone(p) ==
    /\ pc[p] = "i_clone"
    /\ \E cloned \in BOOLEAN, hasChart \in BOOLEAN :
        /\ Log(p, Event("git_clone", RepoURL(local[p].scenario),
                        ChartDir(local[p].scenario), cloned /\ hasChart))
        /\ IF cloned /\ hasChart
           THEN /\ fs' = [fs EXCEPT ![p] = {"tempDir", "chart"}]
                /\ local' = [local EXCEPT ![p] =
                                StartStatusUpdate(@, PhaseBeforeInstall, "i_namespace")]
                /\ pc' = [pc EXCEPT ![p] = "s_get"]
           ELSE /\ fs' = [fs EXCEPT ![p] = AfterFailedDownload(@)]
                /\ pc' = [pc EXCEPT ![p] = "i_downloadFailed"]
                /\ UNCHANGED local
    /\ UNCHANGED << clock, host, definitions, store, releases, namespaces, leaked, result >>

\* a failure path that returns without touching the record
NoCleanupRecord(p) == UNCHANGED << store, local, trace >>

\* the cleanup of the record after a failure (lines 195-196, 210-211): the
\* outcome of the Delete is dropped
CleanupRecord(p) ==
    \E ok \in BOOLEAN :
        LET done == ok /\ Exists(ActiveScenarioName)
        IN  /\ Log(p, Event("delete", ActiveScenarioName,
                            IF done THEN store[ActiveScenarioName].scenarioId ELSE "",
                            done))
            /\ IF done
               THEN /\ store' = Remove(ActiveScenarioName)
                    /\ local' = Outdate(local, p)
               ELSE UNCHANGED << store, local >>

\* lines 193-198
Install_DownloadFailed(p) ==
    /\ pc[p] = "i_downloadFailed"
    /\ CleanupRecord(p)
    /\ Return(p, "failed to download chart")
    /\ UNCHANGED << clock, host, definitions, releases, namespaces, leaked, fs >>

\* installChart, lines 328-335: kubectl create namespace | kubectl apply;
\* the outcome is ignored
Install_Namespace(p) ==
    /\ pc[p] = "i_namespace"
    /\ \E ok \in BOOLEAN :
        LET ns == getHelmNamespace(local[p].scenarioID)
        IN  /\ namespaces' = IF ok THEN namespaces \cup {ns} ELSE namespaces
            /\ Log(p, Event("create_namespace", ns, local[p].scenarioID, ok))
    /\ pc' = [pc EXCEPT ![p] = "i_helm"]
    /\ UNCHANGED << clock, host, definitions, store, releases, leaked, local, fs, result >>

\* installChart, lines 337-358: helm upgrade --install --create-namespace
\* --wait.  It succeeds (the release is deployed), fails before it changed
\* anything, or fails half way and leaves a failed release
Install_Helm(p) ==
    /\ pc[p] = "i_helm"
    /\ \E outcome \in {"deployed", "failed", "unchanged"} :
        LET name == getHelmReleaseName(local[p].scenarioID)
            ns == getHelmNamespace(local[p].scenarioID)
        IN  /\ Log(p, Event("helm_install", name, local[p].scenarioID,
                            outcome = "deployed"))
            /\ IF outcome = "unchanged"
               THEN UNCHANGED << releases, namespaces >>
               ELSE /\ releases' = [releases EXCEPT ![name] = outcome]
                    /\ namespaces' = namespaces \cup {ns}
            /\ IF outcome = "deployed"
               THEN /\ local' = [local EXCEPT ![p] =
                                    StartStatusUpdate(@, PhaseAfterInstall, "i_return")]
                    /\ pc' = [pc EXCEPT ![p] = "s_get"]
               ELSE /\ pc' = [pc EXCEPT ![p] = "i_installFailed"]
                    /\ UNCHANGED local
    /\ UNCHANGED << clock, host, definitions, store, leaked, fs, result >>

\* lines 208-213: the return comes before the deferred removal is set up
Install_InstallFailed(p) ==
    /\ pc[p] = "i_installFailed"
    /\ CleanupRecord(p)
    /\ Return(p, "failed to install chart")
    /\ UNCHANGED << clock, host, definitions, releases, namespaces, leaked, fs >>

\* what the deferred os.RemoveAll(chartPath) of line 214 leaves: chartPath
\* is the chart directory inside the clone
DeferredRemove(dir) == dir \ {"chart"}

\* lines 221-225: return nil, and the deferred removal runs
Install_Return(p) ==
    /\ pc[p] = "i_return"
    /\ fs' = [fs EXCEPT ![p] = DeferredRemove(@)]
    /\ Return(p, "ok")
    /\ UNCHANGED << clock, host, definitions, store, releases, namespaces, leaked, local, trace >>

(***************************************************************************)
(* ListScenarios as an operation                                           *)
(***************************************************************************)

CallListScenarios(p) ==
    /\ pc[p] = "idle"
    /\ pc' = [pc EXCEPT ![p] = "l_list"]
    /\ local' = [local EXCEPT ![p] = [NoLocal EXCEPT !.op = "list"]]
    /\ UNCHANGED << clock, host, definitions, store, releases, namespaces, leaked, fs,
                    trace, result >>

\* lines 480-503: the List call, then the conversion of its items
Catalog_List(p) ==
    /\ pc[p] = "l_list"
    /\ \E listOk \in BOOLEAN :
        /\ Log(p, Event("list", "scenariodefinitions", "", listOk))
        /\ IF listOk
           THEN /\ local' = [local EXCEPT ![p].listed = ListScenarios(definitions)]
                /\ Return(p, "ok")
           ELSE /\ Return(p, ErrList)
                /\ UNCHANGED local
    /\ UNCHANGED << clock, host, definitions, store, releases, namespaces, leaked, fs >>

CallGetScenario(p, id) ==
    /\ pc[p] = "idle"
    /\ pc' = [pc EXCEPT ![p] = "g_list"]
    /\ local' = [local EXCEPT ![p] = [NoLocal EXCEPT !.op = "get",
                                                     !.scenarioID = id]]
    /\ UNCHANGED << clock, host, definitions, store, releases, namespaces, leaked, fs,
                    trace, result >>

CallFindScenario(p, id) ==
    /\ pc[p] = "idle"
    /\ pc' = [pc EXCEPT ![p] = "f_list"]
    /\ local' = [local EXCEPT ![p] = [NoLocal EXCEPT !.op = "find",
                                                     !.scenarioID = id]]
    /\ UNCHANGED << clock, host, definitions, store, releases, namespaces, leaked, fs,
                    trace, result >>

\* what a lookup returns: the scenario and nil, or one of two errors
LookupReturn(p, scenario, listOk, notFound) ==
    /\ Log(p, Event("list", "scenariodefinitions", "", listOk))
    /\ local' = [local EXCEPT ![p].scenario = scenario]
    /\ Return(p, IF ~listOk THEN ErrList
                 ELSE IF scenario.found THEN "ok" ELSE notFound)

\* lines 549-564
Catalog_Get(p) ==
    /\ pc[p] = "g_list"
    /\ \E listOk \in BOOLEAN :
          LookupReturn(p, GetScenario(definitions, local[p].scenarioID, listOk),
                       listOk, ErrGetNotFound)
    /\ UNCHANGED << clock, host, definitions, store, releases, namespaces, leaked, fs >>

\* lines 566-580
Catalog_Find(p) ==
    /\ pc[p] = "f_list"
    /\ \E listOk \in BOOLEAN :
          LookupReturn(p, FindScenario(definitions, local[p].scenarioID, listOk),
                       listOk, ErrFindNotFound)
    /\ UNCHANGED << clock, host, definitions, store, releases, namespaces, leaked, fs >>

\* items without the one at position i
RemoveAt(items, i) ==
    [j \in 1 .. Len(items) - 1 |-> IF j < i THEN items[j] ELSE items[j + 1]]

\* somebody applies a ScenarioDefinition resource or deletes one
Catalog_Change ==
    /\ \/ /\ Len(definitions) < MaxItems
          /\ \E d \in DefinitionKinds : definitions' = Append(definitions, d)
       \/ \E i \in 1 .. Len(definitions) : definitions' = RemoveAt(definitions, i)
    /\ UNCHANGED << clock, host, store, releases, namespaces, leaked, pc, local, fs,
                    trace, result >>

(***************************************************************************)
(* Downloader.DownloadChart and extractScenario (internal/github).  Paths  *)
(* are sequences of characters, so that the prefix test and the trimming   *)
(* work on them as strings.HasPrefix and strings.TrimPrefix do.            *)
(***************************************************************************)

\* RepoName + "-main", written as one character
RepoMain == << "R" >>

\* a prefix that stops at the scenario id
PrefixWithoutSlash(scenarioID) == RepoMain \o << "/" >> \o scenarioID

\* line 82: fmt.Sprintf("%s-main/%s/", RepoName, scenarioID)
ExpectedPrefix(scenarioID) == RepoMain \o << "/" >> \o scenarioID \o << "/" >>

\* strings.HasPrefix
HasPrefix(str, prefix) ==
    Len(str) >= Len(prefix) /\ SubSeq(str, 1, Len(prefix)) = prefix

\* strings.TrimPrefix
TrimPrefix(str, prefix) ==
    IF HasPrefix(str, prefix) THEN SubSeq(str, Len(prefix) + 1, Len(str)) ELSE str

\* the elements of a path: the pieces between the separators
RECURSIVE Elements(_, _)
Elements(str, piece) ==
    IF str = << >> THEN << piece >>
    ELSE IF Head(str) = "/" THEN << piece >> \o Elements(Tail(str), << >>)
    ELSE Elements(Tail(str), Append(piece, Head(str)))

\* filepath.Clean on the elements of an absolute path: empty elements and
\* "." go, ".." takes the element before it
RECURSIVE Clean(_, _)
Clean(done, elements) ==
    IF elements = << >> THEN done
    ELSE LET e == Head(elements)
         IN  IF e = << >> \/ e = << "." >> THEN Clean(done, Tail(elements))
             ELSE IF e = << ".", "." >>
             THEN Clean(IF done = << >> THEN done
                        ELSE SubSeq(done, 1, Len(done) - 1), Tail(elements))
             ELSE Clean(Append(done, e), Tail(elements))

\* filepath.Join(destPath, relativePath), as the elements of the result
Join(destPath, relativePath) == Clean(destPath, Elements(relativePath, << >>))

\* the temporary directory of the caller and the chart directory in it
\* (cmd/scenario.go, lines 42-48)
TempDir == << << "T" >> >>

DestPath == << << "T" >>, << "d" >> >>

\* the scenario ids charts are asked for
ChartIDs == {<< "a" >>, << "b" >>}

TarEntry(name, typeflag) == [Name |-> name, Typeflag |-> typeflag]

\* the entries tarballs are made of: the directory of scenario a, two files
\* and a directory in it, a symbolic link in it, a file of scenario b, a
\* file of a scenario whose name starts with a, the top directory, and an
\* entry of scenario a that climbs out of its directory
EntryPool ==
    { TarEntry(<< "R", "/" >>, "dir"),
      TarEntry(<< "R", "/", "a", "/" >>, "dir"),
      TarEntry(<< "R", "/", "a", "/", "C" >>, "reg"),
      TarEntry(<< "R", "/", "a", "/", "t", "/" >>, "dir"),
      TarEntry(<< "R", "/", "a", "/", "t", "/", "y" >>, "reg"),
      TarEntry(<< "R", "/", "a", "/", "l" >>, "symlink"),
      TarEntry(<< "R", "/", "b", "/", "C" >>, "reg"),
      TarEntry(<< "R", "/", "a", "b", "/", "C" >>, "reg"),
      TarEntry(<< "R", "/", "a", "/", ".", ".", "/", ".", ".", "/", "e" >>, "reg") }

\* how many entries a tarball holds at most
MaxEntries == 3

Tarballs == UNION {[1 .. n -> EntryPool] : n \in 0 .. MaxEntries}

File(path, kind) == [path |-> path, kind |-> kind]

\* the directories os.MkdirAll(path) makes sure of: the path and everything
\* above it
Ancestors(path) == {File(SubSeq(path, 1, n), "dir") : n \in 1 .. Len(path)}

\* os.MkdirAll fails when something on the way is a file
CanMkdirAll(files, path) ==
    \A n \in 1 .. Len(path) : File(SubSeq(path, 1, n), "reg") \notin files

MkdirAll(files, path) == files \cup Ancestors(path)

\* extractFile (lines 127-147): the directory of the file, then the file
CanExtractFile(files, path) ==
    /\ CanMkdirAll(files, SubSeq(path, 1, Len(path) - 1))
    /\ File(path, "dir") \notin files

ExtractFile(files, path) ==
    MkdirAll(files, SubSeq(path, 1, Len(path) - 1)) \cup {File(path, "reg")}

ErrDownload == "failed to download repository"

ErrExtract == "failed to extract scenario"

\* DownloadChart(scenarioID, destPath); the caller has made its temporary
\* directory
CallDownloadChart(p, scenarioID) ==
    /\ pc[p] = "idle"
    /\ pc' = [pc EXCEPT ![p] = "d_get"]
    /\ local' = [local EXCEPT ![p] = [NoLocal EXCEPT !.op = "download",
                                                     !.chartID = scenarioID]]
    /\ fs' = [fs EXCEPT ![p] = Ancestors(TempDir)]
    /\ UNCHANGED << clock, host, definitions, store, releases, namespaces, leaked,
                    trace, result >>

\* lines 45-53: the request fails, or the answer is not 200, or a body
\* arrives
Download_Get(p) ==
    /\ pc[p] = "d_get"
    /\ \/ /\ Return(p, ErrDownload)
          /\ UNCHANGED local
       \/ \E t \in Tarballs :
             /\ local' = [local EXCEPT ![p].tarball = t, ![p].pos = 1]
             /\ pc' = [pc EXCEPT ![p] = "x_open"]
             /\ UNCHANGED result
    /\ UNCHANGED << clock, host, definitions, store, releases, namespaces, leaked, fs, trace >>

\* lines 66-79: the destination directory, then the gzip reader; the body
\* may not be gzip
Extract_Open(p) ==
    /\ pc[p] = "x_open"
    /\ \E made \in BOOLEAN, gzipOk \in BOOLEAN :
          /\ fs' = [fs EXCEPT ![p] = IF made THEN MkdirAll(@, DestPath) ELSE @]
          /\ IF made /\ gzipOk
             THEN pc' = [pc EXCEPT ![p] = "x_next"] /\ UNCHANGED result
             ELSE Return(p, ErrExtract)
    /\ UNCHANGED << clock, host, definitions, store, releases, namespaces, leaked, local,
                    trace >>

\* lines 85-121, one turn of the loop: the end of the archive, a read
\* error, an entry that is skipped, or an entry that is written
Extract_Entry(p) ==
    /\ pc[p] = "x_next"
    /\ IF local[p].pos > Len(local[p].tarball)
       THEN /\ Return(p, "ok")
            /\ UNCHANGED << local, fs >>
       ELSE \E readOk \in BOOLEAN, writeOk \in BOOLEAN :
            LET header == local[p].tarball[local[p].pos]
                expectedPrefix == ExpectedPrefix(local[p].chartID)
                relativePath == TrimPrefix(header.Name, expectedPrefix)
                targetPath == Join(DestPath, relativePath)
                skipped == \/ ~HasPrefix(header.Name, expectedPrefix)
                           \/ relativePath = << >>
                           \/ header.Typeflag \notin {"dir", "reg"}
                can == IF header.Typeflag = "dir"
                       THEN CanMkdirAll(fs[p], targetPath)
                       ELSE CanExtractFile(fs[p], targetPath)
            IN  IF ~readOk
                THEN Return(p, ErrExtract) /\ UNCHANGED << local, fs >>
                ELSE IF skipped
                THEN /\ local' = [local EXCEPT ![p].pos = @ + 1]
                     /\ UNCHANGED << pc, result, fs >>
                ELSE IF writeOk /\ can
                THEN /\ fs' = [fs EXCEPT ![p] =
                                  IF header.Typeflag = "dir"
                                  THEN MkdirAll(@, targetPath)
                                  ELSE ExtractFile(@, targetPath)]
                     /\ local' = [local EXCEPT ![p].pos = @ + 1]
                     /\ UNCHANGED << pc, result >>
                ELSE Return(p, ErrExtract) /\ UNCHANGED << local, fs >>
    /\ UNCHANGED << clock, host, definitions, store, releases, namespaces, leaked, trace >>

(***************************************************************************)
(* The start command on helm.Manager: cmd/scenario.go, package helm        *)
(***************************************************************************)

\* cmd/scenario.go line 22 and helm lines 116-117: on this path the
\* namespace and the release are both named by the scenario id
StartNamespace(scenarioID) == scenarioID

StartReleaseName(scenarioID) == scenarioID

StartReleaseNames == {StartReleaseName(s) : s \in CatalogIDs}

\* helm lines 38, 75, 83: the release that InstallScenario(scenarioID)
\* looks for and uninstalls before it installs
UninstallTarget(scenarioID) == StartReleaseName(scenarioID)

\* a start command that leaves its temporary directory in place
KeepTempDir(dir) == dir

\* cmd/scenario.go line 46, the deferred os.RemoveAll(tempDir): what is
\* left of the temporary directory when RunE returns
RemoveAll(dir) == {}

ErrStartFind == "scenario not found"

ErrStartMkdir == "failed to create temp directory"

ErrStartDownload == "failed to download chart"

ErrStartInstall == "failed to install scenario"

\* RunE returns after line 46: the deferred removal runs
StartReturn(p, err) ==
    /\ Return(p, err)
    /\ fs' = [fs EXCEPT ![p] = RemoveAll(@)]

\* dbeerer start <scenario-id>
CallStart(p, scenarioID) ==
    /\ pc[p] = "idle"
    /\ pc' = [pc EXCEPT ![p] = "st_find"]
    /\ local' = [local EXCEPT ![p] = [NoLocal EXCEPT !.op = "start",
                                                     !.scenarioID = scenarioID]]
    /\ UNCHANGED << clock, host, definitions, store, releases, namespaces, leaked, fs,
                    trace, result >>

\* cmd/scenario.go lines 28-32
Start_Find(p) ==
    /\ pc[p] = "st_find"
    /\ \E listOk \in BOOLEAN :
        LET scenario == FindScenario(definitions, local[p].scenarioID, listOk)
        IN  /\ Log(p, Event("list", "scenariodefinitions", local[p].scenarioID,
                            scenario.found))
            /\ IF scenario.found
               THEN /\ local' = [local EXCEPT ![p].scenario = scenario]
                    /\ pc' = [pc EXCEPT ![p] = "st_mkdir"]
                    /\ UNCHANGED result
               ELSE /\ Return(p, ErrStartFind)
                    /\ UNCHANGED local
    /\ UNCHANGED << clock, host, definitions, store, releases, namespaces, leaked, fs >>

\* cmd/scenario.go lines 42-46
Start_MkdirTemp(p) ==
    /\ pc[p] = "st_mkdir"
    /\ \E ok \in BOOLEAN :
        /\ Log(p, Event("mkdir_temp", "devopsbeerer-*", "", ok))
        /\ IF ok
           THEN /\ fs' = [fs EXCEPT ![p] = {"tempDir"}]
                /\ pc' = [pc EXCEPT ![p] = "st_download"]
                /\ UNCHANGED result
           ELSE /\ Return(p, ErrStartMkdir)
                /\ UNCHANGED fs
    /\ UNCHANGED << clock, host, definitions, store, releases, namespaces, leaked, local >>

\* cmd/scenario.go lines 48-54, DownloadChart as one step: it fails and
\* leaves what it had written, or it returns nil with the destination
\* directory made and the chart of the scenario in it, or nothing in it
Start_Download(p) ==
    /\ pc[p] = "st_download"
    /\ \E ok \in BOOLEAN,
          written \in {{}, {"chartPath"}, {"chartPath", "chart"}} :
        /\ ok => "chartPath" \in written
        /\ Log(p, Event("download", "tarball", local[p].scenarioID, ok))
        /\ IF ok
           THEN /\ fs' = [fs EXCEPT ![p] = @ \cup written]
                /\ pc' = [pc EXCEPT ![p] = "h_last"]
                /\ UNCHANGED result
           ELSE StartReturn(p, ErrStartDownload)
    /\ UNCHANGED << clock, host, definitions, store, releases, namespaces, leaked, local >>

\* helm.Manager.UninstallScenario, lines 55-78, called from line 38: the
\* configuration, then the lookup of the release; an error is only printed
\* by InstallScenario (lines 38-41)
Helm_Last(p) ==
    /\ pc[p] = "h_last"
    /\ \E ok \in BOOLEAN :
        LET name == UninstallTarget(local[p].scenarioID)
            found == ok /\ name \in DOMAIN releases /\ releases[name] # "absent"
        IN  /\ local' = [local EXCEPT ![p].helmRelease = name]
            /\ pc' = [pc EXCEPT ![p] = IF found THEN "h_uninstall" ELSE "h_install"]
    /\ UNCHANGED << clock, host, definitions, store, releases, namespaces, leaked, fs,
                    trace, result >>

\* helm lines 82-89: uninstall.Run
Helm_Uninstall(p) ==
    /\ pc[p] = "h_uninstall"
    /\ \E ok \in BOOLEAN :
        LET name == local[p].helmRelease
        IN  /\ releases' = HelmUninstall(releases, name, ok)
            /\ Log(p, Event("helm_uninstall", name, local[p].scenarioID, ok))
    /\ pc' = [pc EXCEPT ![p] = "h_install"]
    /\ UNCHANGED << clock, host, definitions, store, namespaces, leaked, local, fs, result >>

\* helm.Manager.installChart, lines 93-129, and the return of RunE (lines
\* 58-65): the configuration and the load of the chart may fail before
\* anything is changed; install.Run does not take a name that is in use;
\* it deploys the release, or fails half way and leaves a failed release
Helm_Install(p) ==
    /\ pc[p] = "h_install"
    /\ \E outcome \in {"deployed", "failed", "unchanged"} :
        LET name == StartReleaseName(local[p].scenarioID)
            ns == StartNamespace(local[p].scenarioID)
        IN  /\ outcome # "unchanged"
                  => "chart" \in fs[p] /\ releases[name] = "absent"
            /\ Log(p, Event("helm_install", name, ns, outcome = "deployed"))
            /\ IF outcome = "unchanged"
               THEN UNCHANGED << releases, namespaces >>
               ELSE /\ releases' = [releases EXCEPT ![name] = outcome]
                    /\ namespaces' = namespaces \cup {ns}
            /\ StartReturn(p, IF outcome = "deployed" THEN "ok"
                              ELSE ErrStartInstall)
    /\ UNCHANGED << clock, host, definitions, store, leaked, local >>

(***************************************************************************)
(* infrastructure.Manager.DeployInfrastructure                             *)
(***************************************************************************)

PlaygroundRepoURL == "https://github.com/DevOpsBeerer/playground.git"

\* the two setup scripts of the playground repository
InstallScript == "install-k3s.sh"

InitScript == "init-k3s.sh"

ErrInfraMkdir == "failed to create temp directory"

ErrInfraClone == "failed to clone repository"

ErrInfraInstall == "failed to install K3s"

ErrInfraInit == "failed to initialize K3s"

CallDeployInfrastructure(p) ==
    /\ pc[p] = "idle"
    /\ pc' = [pc EXCEPT ![p] = "in_mkdir"]
    /\ local' = [local EXCEPT ![p] = [NoLocal EXCEPT !.op = "deploy"]]
    /\ UNCHANGED << clock, host, definitions, store, releases, namespaces, leaked, fs,
                    trace, result >>

\* lines 29-34
Infra_MkdirTemp(p) ==
    /\ pc[p] = "in_mkdir"
    /\ \E ok \in BOOLEAN :
        /\ Log(p, Event("mkdir_temp", "devopsbeerer-infra-", "", ok))
        /\ IF ok
           THEN /\ fs' = [fs EXCEPT ![p] = {"workDir"}]
                /\ pc' = [pc EXCEPT ![p] = "in_clone"]
                /\ UNCHANGED result
           ELSE /\ Return(p, ErrInfraMkdir)
                /\ UNCHANGED fs
    /\ UNCHANGED << clock, host, definitions, store, releases, namespaces, leaked, local >>

\* a DeployInfrastructure that goes from the clone to init-k3s.sh
CloneThenInit == "in_init"

\* line 44: the step that follows the clone
AfterClone == "in_install"

\* lines 38-41 and cloneRepository (65-80): git clone brings the repository
\* with whatever scripts it holds, or fails and leaves what it had made
Infra_Clone(p) ==
    /\ pc[p] = "in_clone"
    /\ \E ok \in BOOLEAN, made \in SUBSET {"playground", InstallScript, InitScript} :
        /\ made # {} => "playground" \in made
        /\ ok => "playground" \in made
        /\ Log(p, Event("git_clone", PlaygroundRepoURL, "playground", ok))
        /\ fs' = [fs EXCEPT ![p] = @ \cup made]
        /\ IF ok
           THEN pc' = [pc EXCEPT ![p] = AfterClone] /\ UNCHANGED result
           ELSE Return(p, ErrInfraClone)
    /\ UNCHANGED << clock, host, definitions, store, releases, namespaces, leaked, local >>

\* a script that was made executable
Executable(script) == script \o "+x"

\* installK3s (83-97) and initializeK3s (113-127): the script must be in
\* the clone and is made executable; a failure is the end of the step, and
\* the event names the call the step ended with
PrepareScript(p, script, next, err) ==
    \E chmodOk \in BOOLEAN :
        LET found == script \in fs[p]
        IN  IF found /\ chmodOk
            THEN /\ fs' = [fs EXCEPT ![p] = @ \cup {Executable(script)}]
                 /\ pc' = [pc EXCEPT ![p] = next]
                 /\ UNCHANGED << result, trace >>
            ELSE /\ Log(p, Event("script", script,
                                 IF found THEN "chmod" ELSE "stat", FALSE))
                 /\ Return(p, err)
                 /\ UNCHANGED fs

\* installK3s (98-109) and initializeK3s (128-139): bash runs the script;
\* a script that fails may have installed its part already
RunScript(p, script, next, err) ==
    \E runOk \in BOOLEAN, installed \in BOOLEAN :
        /\ runOk => installed
        /\ Log(p, Event("script", script, "run", runOk))
        /\ host' = IF installed THEN host \cup {script} ELSE host
        /\ IF runOk
           THEN pc' = [pc EXCEPT ![p] = next] /\ UNCHANGED result
           ELSE Return(p, err)

\* lines 43-46, to the chmod
Infra_PrepareInstallK3s(p) ==
    /\ pc[p] = "in_install"
    /\ PrepareScript(p, InstallScript, "in_install_run", ErrInfraInstall)
    /\ UNCHANGED << clock, host, definitions, store, releases, namespaces, leaked, local >>

\* lines 43-46, the run
Infra_InstallK3s(p) ==
    /\ pc[p] = "in_install_run"
    /\ RunScript(p, InstallScript, "in_init", ErrInfraInstall)
    /\ UNCHANGED << clock, definitions, store, releases, namespaces, leaked, local,
                    fs >>

\* lines 48-51, to the chmod
Infra_PrepareInitializeK3s(p) ==
    /\ pc[p] = "in_init"
    /\ PrepareScript(p, InitScript, "in_init_run", ErrInfraInit)
    /\ UNCHANGED << clock, host, definitions, store, releases, namespaces, leaked, local >>

\* lines 48-51, the run
Infra_InitializeK3s(p) ==
    /\ pc[p] = "in_init_run"
    /\ RunScript(p, InitScript, "in_cleanup", ErrInfraInit)
    /\ UNCHANGED << clock, definitions, store, releases, namespaces, leaked, local,
                    fs >>

\* lines 53-61: os.RemoveAll(m.workDir); a failure is a warning
Infra_Cleanup(p) ==
    /\ pc[p] = "in_cleanup"
    /\ \E ok \in BOOLEAN :
        /\ Log(p, Event("remove_all", "workDir", "", ok))
        /\ fs' = [fs EXCEPT ![p] = IF ok THEN {} ELSE @]
    /\ Return(p, "ok")
    /\ UNCHANGED << clock, host, definitions, store, releases, namespaces, leaked, local >>

(***************************************************************************)
(* Specifications                                                          *)
(***************************************************************************)

\* no invocation is running: the point between two CLI operations
Quiescent == \A q \in Procs : pc[q] \in {"idle", "done"}

\* the CLI is used by one operator: an invocation starts when the one
\* before it has ended
OneAtATime == \A q \in Procs : pc[q] = "idle"

\* the statements of the three operations
Work(p) ==
    \/ Install_GetScenario(p)
    \/ Install_GetActive(p)
    \/ Install_Create(p)
    \/ Install_MkdirTemp(p)
    \/ Install_Clone(p)
    \/ Install_DownloadFailed(p)
    \/ Install_Namespace(p)
    \/ Install_Helm(p)
    \/ Install_InstallFailed(p)
    \/ Install_Return(p)
    \/ Uninstall_Get(p)
    \/ Uninstall_Helm(p)
    \/ Uninstall_Delete(p)
    \/ Uninstall_Namespace(p)
    \/ UpdateStatus_Get(p)
    \/ UpdateStatus_Update(p)

Step(p) == Work(p) \/ Exit(p)

Call(p) ==
    \/ \E id \in RequestIDs : CallInstallScenario(p, id)
    \/ CallUninstallScenario(p)
    \/ \E id \in CatalogIDs, phase \in Phases :
          CallUpdateActiveScenarioStatus(p, id, phase)

Next == \E p \in Procs : (OneAtATime /\ Call(p)) \/ Step(p)

Spec == Init /\ [][Next]_vars

\* the process is killed from outside in the middle of an operation; nothing
\* of what it has done is undone
Kill(p) ==
    /\ pc[p] \notin {"idle", "done"}
    /\ Return(p, "killed")
    /\ UNCHANGED << clock, host, definitions, store, releases, namespaces, leaked, local,
                    fs, trace >>

NextCrash == Next \/ \E p \in Procs : Kill(p)

SpecCrash == Init /\ [][NextCrash]_vars

\* the catalog alone: the cluster holds any list of ScenarioDefinition
\* resources, and the invocations list them
InitCatalog ==
    /\ definitions \in ListResponses
    /\ store = [n \in {} |-> NoObject]
    /\ releases = [r \in ReleaseNames |-> "absent"]
    /\ namespaces = {}
    /\ leaked = FALSE
    /\ pc = [p \in Procs |-> "idle"]
    /\ local = [p \in Procs |-> NoLocal]
    /\ fs = [p \in Procs |-> {}]
    /\ trace = [p \in Procs |-> << >>]
    /\ result = [p \in Procs |-> "none"]
    /\ clock = 0
    /\ host = {}

\* the invocation that uses the catalog
CatalogProcs == {"p1"}

NextCatalog ==
    \/ Catalog_Change
    \/ \E p \in CatalogProcs :
          \/ CallListScenarios(p)
          \/ \E id \in LookupIDs : CallGetScenario(p, id)
          \/ \E id \in LookupIDs : CallFindScenario(p, id)
          \/ Catalog_List(p)
          \/ Catalog_Get(p)
          \/ Catalog_Find(p)
          \/ Exit(p)

SpecCatalog == InitCatalog /\ [][NextCatalog]_vars

\* the operator only installs and uninstalls, one operation after the other
CallCLI(p) ==
    \/ \E id \in RequestIDs : CallInstallScenario(p, id)
    \/ CallUninstallScenario(p)

NextCLI == \E p \in Procs : (OneAtATime /\ CallCLI(p)) \/ Step(p)

SpecCLI == Init /\ [][NextCLI]_vars

\* the operator starts scenarios with the start command, one after the
\* other; the releases are those helm.Manager names
InitStart ==
    /\ definitions = ClusterDefinitions
    /\ store = [n \in {} |-> NoObject]
    /\ releases = [r \in StartReleaseNames |-> "absent"]
    /\ namespaces = {}
    /\ leaked = FALSE
    /\ pc = [p \in Procs |-> "idle"]
    /\ local = [p \in Procs |-> NoLocal]
    /\ fs = [p \in Procs |-> {}]
    /\ trace = [p \in Procs |-> << >>]
    /\ result = [p \in Procs |-> "none"]
    /\ clock = 0
    /\ host = {}

StartProcs == {"p1"}

NextStart ==
    \E p \in StartProcs :
        \/ \E id \in RequestIDs : CallStart(p, id)
        \/ Start_Find(p)
        \/ Start_MkdirTemp(p)
        \/ Start_Download(p)
        \/ Helm_Last(p)
        \/ Helm_Uninstall(p)
        \/ Helm_Install(p)
        \/ Exit(p)

SpecStart == InitStart /\ [][NextStart]_vars

\* the tarball downloader alone: every tarball, every scenario id
DownloadProcs == {"p1"}

NextDownload ==
    \E p \in DownloadProcs :
        \/ \E id \in ChartIDs : CallDownloadChart(p, id)
        \/ Download_Get(p)
        \/ Extract_Open(p)
        \/ Extract_Entry(p)
        \/ Exit(p)

SpecDownload == Init /\ [][NextDownload]_vars

\* two operators use the CLI against the same cluster at the same time:
\* each starts one InstallScenario, and their statements interleave
CallConcurrent(p) == \E id \in RequestIDs : CallInstallScenario(p, id)

NextConcurrent == \E p \in Procs : CallConcurrent(p) \/ Work(p)

SpecConcurrent == Init /\ [][NextConcurrent]_vars

\* two operators again, the second starting its InstallScenario while the
\* first one's is in flight: its record is created, Helm has not run
CallRace(p) ==
    /\ \/ \A q \in Procs : pc[q] = "idle"
       \/ \E q \in Procs \ {p} : InFlight(q)
    /\ \E id \in RequestIDs : CallInstallScenario(p, id)

NextRace == \E p \in Procs : CallRace(p) \/ Work(p)

SpecRace == Init /\ [][NextRace]_vars

\* the operator deploys the infrastructure, again and again
InfraProcs == {"p1"}

NextInfra ==
    \E p \in InfraProcs :
        \/ CallDeployInfrastructure(p)
        \/ Infra_MkdirTemp(p)
        \/ Infra_Clone(p)
        \/ Infra_PrepareInstallK3s(p)
        \/ Infra_InstallK3s(p)
        \/ Infra_PrepareInitializeK3s(p)
        \/ Infra_InitializeK3s(p)
        \/ Infra_Cleanup(p)
        \/ Exit(p)

SpecInfra == Init /\ [][NextInfra]_vars

\* one operator installs scenarios while time passes; the clock stops at
\* MaxClock seconds
MaxClock == 2

Tick ==
    /\ clock < MaxClock
    /\ clock' = clock + 1
    /\ UNCHANGED << host, definitions, store, releases, namespaces, leaked, pc,
                    local, fs, trace, result >>

ClockProcs == {"p1"}

NextClock ==
    \/ Tick
    \/ \E p \in ClockProcs :
          \/ \E id \in CatalogIDs : CallInstallScenario(p, id)
          \/ Step(p)

SpecClock == Init /\ [][NextClock]_vars

(***************************************************************************)
(* Properties                                                              *)
(***************************************************************************)

Indices(p) == 1 .. Len(trace[p])

Deployed == {r \in ReleaseNames : releases[r] = "deployed"}

StoreCalls == {"create", "update_status", "delete"}

\* C1: the store never holds more than one ActiveScenario record, and the
\* record is created, updated and deleted under the fixed name
\* current-playground-scenario only, never under a name made from the
\* scenario id.
C1_SingletonRecord ==
    /\ Cardinality(DOMAIN store) <= 1
    /\ DOMAIN store \subseteq {ActiveScenarioName}
    /\ \A p \in Procs : \A i \in Indices(p) :
          trace[p][i].ev \in StoreCalls => trace[p][i].name = ActiveScenarioName

\* a switch has deleted the record of one scenario and created that of
\* another, and the release of the first is still there
C1_Witness ==
    \E p \in Procs : \E i, j \in Indices(p) :
        /\ i < j
        /\ trace[p][i].ev = "delete" /\ trace[p][i].ok
        /\ trace[p][j].ev = "create" /\ trace[p][j].ok
        /\ trace[p][i].arg # trace[p][j].arg
        /\ Exists(ActiveScenarioName)
        /\ releases[getHelmReleaseName(trace[p][i].arg)] = "deployed"

\* C2: between operations at most one scenario release is deployed; after a
\* successful switch to B the release of A is gone.
C2_OneReleaseDeployed ==
    Quiescent => Cardinality(Deployed) <= 1

LastEvent(p) == trace[p][Len(trace[p])]

Happened(p, ev, ok) ==
    \E i \in Indices(p) : trace[p][i].ev = ev /\ trace[p][i].ok = ok

\* C4 as claimed: a status update that asks for a phase earlier than the
\* record's current phase is rejected with an error and changes nothing.
C4_RejectsBackward ==
    [][\A p \in Procs :
          ( /\ pc[p] = "s_update"
            /\ Exists(ActiveScenarioName)
            /\ Rank(local[p].phase) < Rank(store[ActiveScenarioName].phase) )
          => /\ store' = store
             /\ pc'[p] = "done" => result'[p] # "ok"]_vars

\* C4 as the code has it: UpdateActiveScenarioStatus compares no phases.
\* Whenever its UpdateStatus call succeeds the record carries the requested
\* phase, an earlier one included, and its scenarioId is untouched; when the
\* call fails the record is unchanged.  The phases only move forward because
\* of the order in which InstallScenario asks for them: a step of an install
\* never replaces a phase of the record by an earlier one.
C4_NoOrderingCheck ==
    [][\A p \in Procs :
          /\ ( pc[p] = "s_update" /\ pc'[p] # "s_update" )
             => IF trace'[p][Len(trace'[p])].ok
                THEN /\ store'[ActiveScenarioName].phase = local[p].phase
                     /\ store'[ActiveScenarioName].scenarioId
                           = store[ActiveScenarioName].scenarioId
                ELSE store' = store
          /\ ( /\ local[p].op = "install" /\ pc'[p] # pc[p]
               /\ Exists(ActiveScenarioName)
               /\ ActiveScenarioName \in DOMAIN store' )
             => Rank(store'[ActiveScenarioName].phase)
                   >= Rank(store[ActiveScenarioName].phase)]_vars

\* a call of UpdateActiveScenarioStatus has moved a Running record back to
\* Pending and returned success
C4_Witness ==
    \E p \in Procs :
        /\ pc[p] = "done" /\ local[p].op = "update" /\ result[p] = "ok"
        /\ local[p].current.phase = "Running"
        /\ local[p].phase = "Pending"
        /\ store[ActiveScenarioName].phase = "Pending"

InstallFailures == {"failed to download chart", "failed to install chart"}

CreatedRecord(p) == Happened(p, "create", TRUE)

\* C5 as claimed: an InstallScenario that fails after it created the record
\* has deleted it when it returns.
C5_RecordGoneAfterFailure ==
    \A p \in Procs :
        ( /\ pc[p] = "done" /\ local[p].op = "install"
          /\ CreatedRecord(p) /\ result[p] \in InstallFailures )
        => ~GetActiveScenario.found

\* C5 as the code has it: an InstallScenario that created the record
\* returns success or the download/install error.  Before it returns an
\* error it makes one attempt to delete the record and drops the outcome:
\* when the deletion succeeded GetActiveScenario reports absent, when it
\* failed the record is still there.  The error is the download error
\* exactly when Helm was never run, the install error when Helm failed.
C5_CleanupAttempted ==
    \A p \in Procs :
        ( pc[p] = "done" /\ local[p].op = "install" /\ CreatedRecord(p) )
        => \/ result[p] = "ok"
           \/ /\ result[p] \in InstallFailures
              /\ LastEvent(p).ev = "delete"
              /\ LastEvent(p).name = ActiveScenarioName
              /\ LastEvent(p).ok => ~GetActiveScenario.found
              /\ ~LastEvent(p).ok =>
                    GetActiveScenario.ScenarioID = local[p].scenarioID
              /\ result[p] = "failed to install chart"
                    <=> Happened(p, "helm_install", FALSE)
              /\ result[p] = "failed to download chart"
                    <=> ~Happened(p, "helm_install", FALSE)

\* Helm failed, the record was deleted and the install error returned
C5_Witness ==
    \E p \in Procs :
        /\ pc[p] = "done" /\ local[p].op = "install" /\ CreatedRecord(p)
        /\ result[p] = "failed to install chart"
        /\ LastEvent(p).ev = "delete" /\ LastEvent(p).ok
        /\ ~GetActiveScenario.found

\* C6: when InstallScenario returns, nothing of the temporary directory made
\* by downloadChart exists any more, whichever way it returns.
C6_TempDirRemoved ==
    \A p \in Procs :
        ( pc[p] = "done" /\ local[p].op = "install" /\ result[p] # "killed" )
        => fs[p] = {}

Wrote(p, phase) ==
    \E i \in Indices(p) :
        /\ trace[p][i].ev = "update_status" /\ trace[p][i].ok
        /\ trace[p][i].arg = phase

\* C7 as claimed: from the creation of the record by InstallScenario(x)
\* until Deploying is written, GetActiveScenario returns x with phase
\* Pending; the record is never seen with another or an empty phase.
C7_PendingFromCreation ==
    \A p \in Procs :
        ( /\ local[p].op = "install" /\ CreatedRecord(p)
          /\ ~Wrote(p, "Deploying")
          /\ GetActiveScenario.found )
        => /\ GetActiveScenario.ScenarioID = local[p].scenarioID
           /\ GetActiveScenario.Phase = "Pending"

\* C7 as the code has it: the record is created without a status and gets
\* its phase from a second call.  From the creation of the record by
\* InstallScenario(x) until a later phase is written, GetActiveScenario
\* returns x, with phase Pending once the Pending update has succeeded and
\* with an empty phase before that and when that update fails.
C7_PendingAfterUpdate ==
    \A p \in Procs :
        ( /\ local[p].op = "install" /\ CreatedRecord(p)
          /\ ~Wrote(p, "Deploying") /\ ~Wrote(p, "Running")
          /\ GetActiveScenario.found )
        => /\ GetActiveScenario.ScenarioID = local[p].scenarioID
           /\ GetActiveScenario.Phase =
                 IF Wrote(p, "Pending") THEN "Pending" ELSE ""

\* the Pending update has just succeeded and the record reads x, Pending
C7_Witness ==
    \E p \in Procs :
        /\ pc[p] = "i_mkdir" /\ Wrote(p, "Pending")
        /\ GetActiveScenario.found
        /\ GetActiveScenario.ScenarioID = local[p].scenarioID
        /\ GetActiveScenario.Phase = "Pending"

\* C8 as claimed: every deletion of the record comes, in the same
\* operation, after a Helm uninstall of the record's release that succeeded.
C8_DeletedAfterUninstallSucceeded ==
    \A p \in Procs : \A i \in Indices(p) :
        ( trace[p][i].ev = "delete" /\ trace[p][i].ok )
        => \E j \in Indices(p) :
              /\ j < i
              /\ trace[p][j].ev = "helm_uninstall" /\ trace[p][j].ok
              /\ trace[p][j].name = getHelmReleaseName(trace[p][i].arg)

\* C8 as the code has it: the record is deleted in two places.
\* UninstallScenario deletes it right after the Helm uninstall of the
\* record's release was attempted, whether that succeeded or failed.
\* InstallScenario deletes the record it created, without any Helm
\* uninstall, as its last call after a failed chart download or a failed
\* Helm install.
C8_DeletedAfterUninstallAttempt ==
    \A p \in Procs : \A i \in Indices(p) :
        ( trace[p][i].ev = "delete" /\ trace[p][i].ok )
        => /\ i > 1
           /\ \/ /\ trace[p][i-1].ev = "helm_uninstall"
                 /\ trace[p][i-1].name = getHelmReleaseName(trace[p][i].arg)
              \/ /\ local[p].op = "install"
                 /\ i = Len(trace[p])
                 /\ trace[p][i].arg = local[p].scenarioID
                 /\ \E j \in 1 .. i-1 :
                       /\ trace[p][j].ev = "create" /\ trace[p][j].ok
                       /\ trace[p][j].arg = local[p].scenarioID
                 /\ \/ trace[p][i-1].ev = "mkdir_temp" /\ ~trace[p][i-1].ok
                    \/ trace[p][i-1].ev = "git_clone"
                    \/ trace[p][i-1].ev = "helm_install" /\ ~trace[p][i-1].ok

\* the Helm uninstall failed and the record was deleted all the same
C8_Witness ==
    \E p \in Procs : \E i \in Indices(p) :
        /\ i > 1
        /\ trace[p][i].ev = "delete" /\ trace[p][i].ok
        /\ trace[p][i-1].ev = "helm_uninstall" /\ ~trace[p][i-1].ok
        /\ releases[trace[p][i-1].name] = "deployed"

InstallSideEffects == {"git_clone", "create_namespace", "helm_install"}

HasRecordOf(scenarioID) ==
    /\ Exists(ActiveScenarioName)
    /\ store[ActiveScenarioName].scenarioId = scenarioID

C10_NoRecordNoRelease ==
    ( Quiescent /\ ~GetActiveScenario.found ) => Deployed = {}

ErrDeleteRecord == "failed to delete active scenario"

\* C11: UninstallScenario tolerates a failed Helm uninstall.  A failed Helm
\* uninstall is followed by the deletion of the record under the fixed
\* name; an UninstallScenario returns success exactly when that deletion
\* succeeded, and after an UninstallScenario that returned success
\* GetActiveScenario reports absent.
C11_UninstallToleratesHelmFailure ==
    \A p \in Procs :
        /\ \A i \in Indices(p) :
              ( trace[p][i].ev = "helm_uninstall" /\ ~trace[p][i].ok )
              => IF i = Len(trace[p])
                 THEN pc[p] = "u_delete"
                 ELSE /\ trace[p][i+1].ev = "delete"
                      /\ trace[p][i+1].name = ActiveScenarioName
        /\ ( local[p].op = "uninstall" /\ pc[p] = "done" )
              => /\ result[p] = "ok" <=> Happened(p, "delete", TRUE)
                 /\ result[p] = "ok" => ~GetActiveScenario.found

\* Helm could not remove the release, the record was deleted and
\* UninstallScenario returned success
C11_Witness ==
    \E p \in Procs :
        /\ local[p].op = "uninstall" /\ pc[p] = "done" /\ result[p] = "ok"
        /\ Happened(p, "helm_uninstall", FALSE)
        /\ Happened(p, "delete", TRUE)
        /\ ~GetActiveScenario.found

\* an UninstallScenario that found a record has returned
UninstallEnded(p) ==
    local[p].op = "uninstall" /\ pc[p] = "done" /\ trace[p] # << >>

C13_NamespaceBeforeRecord ==
    \A p \in Procs : \A i \in Indices(p) :
        ( /\ i > 1 /\ trace[p][i].ev = "delete" /\ trace[p][i].ok
          /\ trace[p][i-1].ev = "helm_uninstall" )
        => \E j \in 1 .. i-1 : trace[p][j].ev = "delete_namespace"

\* C13 as the code has it: the steps of UninstallScenario are the Helm
\* uninstall, then the deletion of the record, then the deletion of the
\* namespace.  The namespace deletion is attempted only right after the
\* record was deleted, which comes right after the Helm uninstall of the
\* same scenario.
C13_RecordBeforeNamespace ==
    \A p \in Procs : \A i \in Indices(p) :
        trace[p][i].ev = "delete_namespace"
        => /\ i >= 3
           /\ trace[p][i-1].ev = "delete" /\ trace[p][i-1].ok
           /\ trace[p][i-2].ev = "helm_uninstall"
           /\ trace[p][i-1].arg = trace[p][i].arg
           /\ trace[p][i-2].arg = trace[p][i].arg
           /\ trace[p][i-2].name = getHelmReleaseName(trace[p][i].arg)
           /\ trace[p][i].name = getHelmNamespace(trace[p][i].arg)

\* an UninstallScenario has run its three steps and the namespace is gone
C13_Witness ==
    \E p \in Procs :
        /\ UninstallEnded(p) /\ Len(trace[p]) = 3
        /\ trace[p][1].ev = "helm_uninstall" /\ trace[p][1].ok
        /\ trace[p][2].ev = "delete" /\ trace[p][2].ok
        /\ trace[p][3].ev = "delete_namespace" /\ trace[p][3].ok
        /\ trace[p][3].name \notin namespaces

\* C14: UninstallScenario without a record fails with "no active scenario
\* found" and changes nothing: no call that changes anything is made (no
\* Helm uninstall, no namespace deletion, no Create, no Delete), and the
\* store, the releases and the namespaces are as they were.
C14_NoRecordNoChange ==
    [][\A p \in Procs :
          ( /\ pc[p] = "u_get" /\ local[p].op = "uninstall"
            /\ ~Exists(ActiveScenarioName)
            /\ pc'[p] # "u_get" )
          => /\ pc'[p] = "done"
             /\ result'[p] = "no active scenario found"
             /\ trace'[p] = << >>
             /\ store' = store
             /\ releases' = releases
             /\ namespaces' = namespaces]_vars

\* UninstallScenario failed for want of a record, with a release deployed
\* that it did not touch
C14_Witness ==
    \E p \in Procs :
        /\ local[p].op = "uninstall" /\ pc[p] = "done"
        /\ result[p] = "no active scenario found"
        /\ trace[p] = << >>
        /\ ~Exists(ActiveScenarioName)
        /\ Deployed # {}

UninstallPositions == {"u_get", "u_helm", "u_delete", "u_namespace"}

\* C15: switching.  An InstallScenario(B) that found the record of another
\* scenario A runs the uninstall of A first: the Helm uninstall of
\* devopsbeerer-A is its first call, before the Create and every install
\* step for B.  Whatever the uninstall returns, the install goes on to the
\* Create of B's record; when the call returns success the record that
\* exists has scenarioId B, also when the Helm uninstall of A failed.
C15_SwitchUninstallsFirst ==
    \A p \in Procs : local[p].op = "install" =>
        /\ \A i \in Indices(p) :
              trace[p][i].ev = "helm_uninstall"
              => /\ i = 1
                 /\ local[p].nested
                 /\ trace[p][i].arg # local[p].scenarioID
                 /\ trace[p][i].name = getHelmReleaseName(trace[p][i].arg)
        /\ ( local[p].nested /\ pc[p] \notin UninstallPositions \cup {"i_create"} )
              => \E i \in Indices(p) :
                    /\ trace[p][i].ev = "create"
                    /\ trace[p][i].arg = local[p].scenarioID
                    /\ \A j \in 1 .. i-1 :
                          trace[p][j].ev \in
                             {"helm_uninstall", "delete", "delete_namespace"}
        /\ ( local[p].nested /\ pc[p] = "done" /\ result[p] = "ok" )
              => HasRecordOf(local[p].scenarioID)

\* a switch from A to B has returned success with B's record in place,
\* although the Helm uninstall of A failed
C15_Witness ==
    \E p \in Procs :
        /\ local[p].op = "install" /\ local[p].nested
        /\ pc[p] = "done" /\ result[p] = "ok"
        /\ trace[p][1].ev = "helm_uninstall" /\ ~trace[p][1].ok
        /\ HasRecordOf(local[p].scenarioID)
        /\ store[ActiveScenarioName].phase = "Running"

\* C16: InstallScenario(id) for an id the catalog does not have fails with
\* the scenario-not-found error and leaves everything unchanged: no call
\* that changes anything is made, the record (of whatever scenario) is
\* neither modified nor deleted, no uninstall runs, no release is installed.
C16_UnknownScenarioNoChange ==
    [][\A p \in Procs :
          ( /\ pc[p] = "i_getScenario"
            /\ local[p].scenarioID \notin CatalogIDs
            /\ pc'[p] # "i_getScenario" )
          => /\ pc'[p] = "done"
             /\ result'[p] = "scenario not found"
             /\ trace'[p] = << >>
             /\ store' = store
             /\ releases' = releases
             /\ namespaces' = namespaces
             /\ fs' = fs]_vars

\* InstallScenario of an unknown id has failed and the running scenario is
\* as it was
C16_Witness ==
    \E p \in Procs :
        /\ local[p].op = "install" /\ pc[p] = "done"
        /\ local[p].scenarioID \notin CatalogIDs
        /\ result[p] = "scenario not found"
        /\ trace[p] = << >>
        /\ Exists(ActiveScenarioName)
        /\ store[ActiveScenarioName].phase = "Running"
        /\ releases[getHelmReleaseName(store[ActiveScenarioName].scenarioId)]
              = "deployed"

StatusUpdates(p) == {i \in Indices(p) : trace[p][i].ev = "update_status"}

\* C17: the status updates of one InstallScenario ask for Pending,
\* Deploying, Running in that order, each at most once.  Pending comes
\* right after the Create; Deploying only after downloadChart returned a
\* chart and before Helm is invoked; Running only after Helm returned
\* success.  No install whose Helm step failed asks for Running.
C17_PhaseOrder ==
    \A p \in Procs : local[p].op = "install" =>
        /\ \A i, j \in StatusUpdates(p) :
              i < j => Rank(trace[p][i].arg) < Rank(trace[p][j].arg)
        /\ \A i \in StatusUpdates(p) :
              /\ trace[p][i].arg \in Phases
              /\ trace[p][i].arg = "Pending"
                    => i > 1 /\ trace[p][i-1].ev = "create" /\ trace[p][i-1].ok
              /\ trace[p][i].arg = "Deploying"
                    => /\ \E j \in 1 .. i-1 :
                             trace[p][j].ev = "git_clone" /\ trace[p][j].ok
                       /\ \A j \in 1 .. i-1 : trace[p][j].ev # "helm_install"
              /\ trace[p][i].arg = "Running"
                    => \E j \in 1 .. i-1 :
                          trace[p][j].ev = "helm_install" /\ trace[p][j].ok
        /\ Happened(p, "helm_install", FALSE)
              => \A i \in StatusUpdates(p) : trace[p][i].arg # "Running"

\* an install has written Pending, Deploying and Running
C17_Witness ==
    \E p \in Procs :
        /\ local[p].op = "install" /\ pc[p] = "done" /\ result[p] = "ok"
        /\ Wrote(p, "Pending") /\ Wrote(p, "Deploying") /\ Wrote(p, "Running")
        /\ store[ActiveScenarioName].phase = "Running"

\* an InstallScenario that did install has returned success
InstalledOK(p) ==
    /\ local[p].op = "install" /\ pc[p] = "done" /\ result[p] = "ok"
    /\ CreatedRecord(p)

\* C18 as claimed: after an InstallScenario(x) that did install and
\* returned success the record has scenarioId x and phase Running.
C18_RunningAfterSuccess ==
    \A p \in Procs :
        InstalledOK(p)
        => /\ HasRecordOf(local[p].scenarioID)
           /\ store[ActiveScenarioName].phase = "Running"

\* C18 as the code has it: after an InstallScenario(x) that did install
\* and returned success the record has scenarioId x and the release of x
\* is deployed.  Its phase is Running exactly when the last status update
\* succeeded; a failed update is only a warning, and then the phase is the
\* last one written before (Deploying, Pending or none).
C18_RunningWhenLastUpdateSucceeded ==
    \A p \in Procs :
        InstalledOK(p)
        => /\ HasRecordOf(local[p].scenarioID)
           /\ releases[getHelmReleaseName(local[p].scenarioID)] = "deployed"
           /\ store[ActiveScenarioName].phase = "Running"
                 <=> ( LastEvent(p).ev = "update_status" /\ LastEvent(p).ok )
           /\ store[ActiveScenarioName].phase =
                 IF Wrote(p, "Running") THEN "Running"
                 ELSE IF Wrote(p, "Deploying") THEN "Deploying"
                 ELSE IF Wrote(p, "Pending") THEN "Pending"
                 ELSE ""

\* InstallScenario returned success and the record still says Deploying
C18_Witness ==
    \E p \in Procs :
        /\ InstalledOK(p)
        /\ HasRecordOf(local[p].scenarioID)
        /\ store[ActiveScenarioName].phase = "Deploying"
        /\ releases[getHelmReleaseName(local[p].scenarioID)] = "deployed"

ErrCreateRecord == "failed to create active scenario"

InstallSteps ==
    {"update_status", "mkdir_temp", "git_clone", "create_namespace",
     "helm_install"}

\* two InstallScenario invocations that run at the same time, for
\* different scenarios, have both seen no record before either created
\* it, and both have gone on to the Create
BothCreate(p, q) ==
    /\ p # q
    /\ local[p].op = "install" /\ local[q].op = "install"
    /\ local[p].scenarioID # local[q].scenarioID
    /\ ~local[p].nested /\ ~local[q].nested
    /\ local[p].raced \/ local[q].raced
    /\ \E i \in Indices(p) : trace[p][i].ev = "create"
    /\ \E i \in Indices(q) : trace[q][i].ev = "create"

\* C19 as claimed: of two concurrent installs that both saw no record and
\* both attempt the Create, at most one Create succeeds; the other
\* invocation returns the error without a download or a Helm call.
C19_AtMostOneCreateSucceeds ==
    \A p, q \in Procs :
        BothCreate(p, q)
        => /\ ~( CreatedRecord(p) /\ CreatedRecord(q) )
           /\ Happened(p, "create", FALSE)
                 => \A i \in Indices(p) : trace[p][i].ev \notin InstallSteps

\* C19 as the code has it: there is never more than one record, and a
\* Create that is rejected ends the invocation: it returns the creation
\* error with the Create as its only call (no status update, no download,
\* no Helm call) and the record of the invocation that won stays as it is
\* while that one runs.  The Create is rejected only while a record
\* exists: of two concurrent installs that both saw no record both Creates
\* succeed when the first invocation has failed and deleted its record
\* before the second one's Create.
C19_CreateRejectedWhileRecordExists ==
    /\ Cardinality(DOMAIN store) <= 1
    /\ \A p, q \in Procs :
          BothCreate(p, q)
          => /\ Happened(p, "create", FALSE)
                   => /\ pc[p] = "done" /\ result[p] = ErrCreateRecord
                      /\ Len(trace[p]) = 1
                      /\ fs[p] = {}
                      /\ ( CreatedRecord(q) /\ pc[q] # "done" )
                            => HasRecordOf(local[q].scenarioID)
             /\ ( CreatedRecord(p) /\ CreatedRecord(q) )
                   => \/ LastEvent(p).ev = "delete" /\ LastEvent(p).ok
                      \/ LastEvent(q).ev = "delete" /\ LastEvent(q).ok

\* both invocations saw no record; one created it and is downloading the
\* chart, the other's Create was rejected and it returned the error
C19_Witness ==
    \E p, q \in Procs :
        /\ BothCreate(p, q)
        /\ pc[p] = "done" /\ result[p] = ErrCreateRecord
        /\ Len(trace[p]) = 1
        /\ CreatedRecord(q) /\ pc[q] = "i_clone"
        /\ HasRecordOf(local[q].scenarioID)

WellFormed(d) == d.hasSpec /\ d.hasId

\* a list response of three resources of which exactly one lacks the id,
\* the other two being well formed
OneOfThreeWithoutID ==
    /\ Len(definitions) = 3
    /\ Cardinality({i \in 1 .. 3 : definitions[i] = DefinitionWithoutID}) = 1
    /\ Cardinality({i \in 1 .. 3 : WellFormed(definitions[i])}) = 2

\* C20: when one of the three resources of the list response lacks the id,
\* ListScenarios returns the two well-formed records and no error: the
\* result has two scenarios and none of them has an empty ID.
C20_MissingIDSkipped ==
    \A p \in Procs :
        ( /\ local[p].op = "list" /\ pc[p] = "done" /\ result[p] = "ok"
          /\ OneOfThreeWithoutID )
        => /\ Len(local[p].listed) = 2
           /\ \A i \in 1 .. Len(local[p].listed) : local[p].listed[i].ID # ""

\* the resources of a list response that have a spec, in their order
WithSpec(items) == SelectSeq(items, LAMBDA d : d.hasSpec)

\* the record of a resource: its name, id, and chart source
RecordOf(d) ==
    [Name |-> d.name, ID |-> IF d.hasId THEN d.id ELSE "",
     Link |-> d.link, Dir |-> d.dir, found |-> TRUE]

\* C21: catalog parsing is tolerant.  ListScenarios fails exactly when the
\* List call fails; otherwise it returns, in their original order, the
\* converted records of the resources that have a spec, and the resources
\* without a spec are skipped.
C21_TolerantParsing ==
    [][\A p \in Procs :
          ( pc[p] = "l_list" /\ pc'[p] = "done" )
          => LET ok == trace'[p][1].ok
                 kept == WithSpec(definitions)
             IN  /\ result'[p] = IF ok THEN "ok" ELSE ErrList
                 /\ ok => /\ Len(local'[p].listed) = Len(kept)
                          /\ \A i \in 1 .. Len(kept) :
                                local'[p].listed[i] = RecordOf(kept[i])]_vars

\* a list with a resource without a spec between two others was listed
\* without error and the other two came back
C21_Witness ==
    \E p \in Procs :
        /\ local[p].op = "list" /\ pc[p] = "done" /\ result[p] = "ok"
        /\ Len(definitions) = 3
        /\ definitions[2] = DefinitionWithoutSpec
        /\ definitions[1].hasSpec /\ definitions[3].hasSpec
        /\ local[p].listed = << RecordOf(definitions[1]), RecordOf(definitions[3]) >>

\* the positions of the resources with a spec and the id
Matches(items, id) ==
    {i \in 1 .. Len(WithSpec(items)) : RecordOf(WithSpec(items)[i]).ID = id}

\* C22: GetScenario(id) is a linear search over the list as it is when the
\* call is made: a failed List call is returned as the error; without a
\* listed scenario of that ID an error says that it was not found;
\* otherwise the first listed scenario with the ID is returned.
\* FindScenario returns the same scenario, and an error in the same cases.
C22_LinearSearch ==
    [][\A p \in Procs :
          ( pc[p] \in {"g_list", "f_list"} /\ pc'[p] = "done" )
          => LET ok == trace'[p][1].ok
                 M == Matches(definitions, local[p].scenarioID)
                 first == CHOOSE i \in M : \A j \in M : i <= j
             IN  IF ~ok
                 THEN result'[p] = ErrList /\ ~local'[p].scenario.found
                 ELSE IF M = {}
                 THEN /\ result'[p] = IF pc[p] = "g_list" THEN ErrGetNotFound
                                                          ELSE ErrFindNotFound
                      /\ ~local'[p].scenario.found
                 ELSE /\ result'[p] = "ok"
                      /\ local'[p].scenario
                            = RecordOf(WithSpec(definitions)[first])]_vars

\* the list holds two scenarios with the id asked for, after one without a
\* spec, and GetScenario returned the first of the two
C22_Witness ==
    \E p \in Procs :
        /\ local[p].op = "get" /\ pc[p] = "done" /\ result[p] = "ok"
        /\ definitions = << DefinitionWithoutSpec, DefinitionSameID, Definition(1) >>
        /\ local[p].scenarioID = IDPool[1]
        /\ local[p].scenario = RecordOf(DefinitionSameID)

\* the part of an entry's name after '<repo>-main/<scenarioID>/', or the
\* empty path when the name does not begin with it
Under(name, scenarioID) ==
    LET n == Len(scenarioID) + 3
    IN  IF /\ Len(name) >= n
           /\ name[1] = "R" /\ name[2] = "/"
           /\ \A i \in 1 .. Len(scenarioID) : name[2 + i] = scenarioID[i]
           /\ name[n] = "/"
        THEN [j \in 1 .. Len(name) - n |-> name[n + j]]
        ELSE << >>

\* the entries of a tarball that extractScenario has to write
ToWrite(tarball, scenarioID) ==
    {i \in 1 .. Len(tarball) :
        /\ Under(tarball[i].Name, scenarioID) # << >>
        /\ tarball[i].Typeflag \in {"dir", "reg"}}

\* what writing an entry leaves: the entry where it is re-rooted and the
\* directories above it
Written(entry, scenarioID) ==
    LET target == Join(DestPath, Under(entry.Name, scenarioID))
    IN  Ancestors(SubSeq(target, 1, Len(target) - 1))
           \cup {File(target, entry.Typeflag)}

Extracted(p) ==
    local[p].op = "download" /\ pc[p] = "done" /\ result[p] = "ok"

\* the elements of a path without an empty last one
PlainElements(path) ==
    SelectSeq(Elements(path, << >>), LAMBDA e : e # << >>)

\* C23: extraction filters by prefix.  When extractScenario succeeds, the
\* destination holds exactly the regular files and directories of the
\* tarball whose name begins with '<repo>-main/<scenarioID>/', each at the
\* place given by its name without the prefix, joined to the destination
\* (for a name without '.' elements: the destination followed by the
\* elements of the rest of the name), and the directories above them;
\* nothing is written for an entry outside the prefix, an entry of a
\* scenario whose name only starts with the id included.
C23_FilterByPrefix ==
    \A p \in Procs :
        Extracted(p)
        => LET t == local[p].tarball
               id == local[p].chartID
           IN  /\ fs[p] = Ancestors(DestPath)
                            \cup UNION {Written(t[i], id) : i \in ToWrite(t, id)}
               /\ \A i \in ToWrite(t, id) :
                     (\A k \in 1 .. Len(t[i].Name) : t[i].Name[k] # ".")
                     => File(DestPath \o PlainElements(Under(t[i].Name, id)),
                             t[i].Typeflag) \in fs[p]
               /\ ToWrite(t, id) = {} => fs[p] = Ancestors(DestPath)

\* scenario a was extracted from a tarball with the charts of a, of b and
\* of ab: the destination holds the Chart file of a and nothing else
C23_Witness ==
    \E p \in Procs :
        /\ Extracted(p)
        /\ local[p].chartID = << "a" >>
        /\ local[p].tarball =
              << TarEntry(<< "R", "/", "a", "/", "C" >>, "reg"),
                 TarEntry(<< "R", "/", "b", "/", "C" >>, "reg"),
                 TarEntry(<< "R", "/", "a", "b", "/", "C" >>, "reg") >>
        /\ fs[p] = Ancestors(DestPath)
                      \cup {File(DestPath \o << << "C" >> >>, "reg")}

\* C24: DownloadChart does not return success for a tarball without an
\* entry under '<repo>-main/<scenarioID>/'.
C24_FailsWithoutMatch ==
    \A p \in Procs :
        Extracted(p)
        => \E i \in 1 .. Len(local[p].tarball) :
              Under(local[p].tarball[i].Name, local[p].chartID) # << >>

\* C25: the git strategy.  downloadChart clones into a temporary directory
\* it has just created and takes as the chart the subdirectory named by
\* helmChart.dir, or by the scenario id when dir is empty.  When the clone
\* fails or the subdirectory is missing it returns an error and no path,
\* and nothing of the temporary directory is left; when it succeeds the
\* clone and the chart directory exist.
C25_GitStrategy ==
    \A p \in Procs : local[p].op = "install" =>
        /\ \A i \in Indices(p) :
              trace[p][i].ev = "git_clone"
              => /\ trace[p][i].arg =
                       IF local[p].scenario.Dir = ""
                       THEN local[p].scenario.ID ELSE local[p].scenario.Dir
                 /\ i > 1
                 /\ trace[p][i-1].ev = "mkdir_temp" /\ trace[p][i-1].ok
        /\ pc[p] = "i_downloadFailed"
              => /\ fs[p] = {}
                 /\ LastEvent(p).ev \in {"mkdir_temp", "git_clone"}
                 /\ ~LastEvent(p).ok
        /\ Happened(p, "git_clone", FALSE) => fs[p] = {}
        /\ ( Happened(p, "git_clone", TRUE) /\ pc[p] # "done" )
              => fs[p] = {"tempDir", "chart"}

\* the download of a scenario that names its chart directory has failed
\* at the clone, and the temporary directory is gone
C25_Witness ==
    \E p \in Procs :
        /\ local[p].op = "install" /\ pc[p] = "i_downloadFailed"
        /\ local[p].scenario.Dir # ""
        /\ LastEvent(p).ev = "git_clone" /\ ~LastEvent(p).ok
        /\ LastEvent(p).arg = local[p].scenario.Dir
        /\ fs[p] = {}

DeployedReleases == {r \in DOMAIN releases : releases[r] = "deployed"}

StartedOK(p) ==
    /\ pc[p] = "done"
    /\ local[p].op = "start"
    /\ result[p] = "ok"

\* C27: after a successful start at most one scenario release is deployed:
\* starting a scenario while a release of another scenario is deployed
\* removes that release
C27_OneScenarioAtATime ==
    \A p \in Procs :
        StartedOK(p) => Cardinality(DeployedReleases) <= 1

\* the repository an install has cloned: the events of its git clone
Clones(p) == {i \in Indices(p) : trace[p][i].ev = "git_clone"}

\* C28 as stated: an install resolves the chart by git clone only when the
\* scenario's helmChart.link is set
C28_GitCloneOnlyWithLink ==
    \A p \in Procs : local[p].op = "install" =>
        \A i \in Clones(p) : local[p].scenario.Link # ""

\* C28: chart resolution in InstallScenario is always a git clone, of
\* helmChart.link when it is set and of the default charts repository when
\* it is not; the chart that Helm installs always comes from such a clone,
\* never from a tarball download
C28_AlwaysGitClone ==
    \A p \in Procs : local[p].op = "install" =>
        /\ \A i \in Clones(p) :
              trace[p][i].name = IF local[p].scenario.Link = ""
                                 THEN DefaultRepoURL
                                 ELSE local[p].scenario.Link
        /\ \A i \in Indices(p) : trace[p][i].ev # "download"
        /\ \A i \in Indices(p) :
              trace[p][i].ev = "helm_install"
              => \E j \in Clones(p) : j < i /\ trace[p][j].ok

\* an install of a scenario without helmChart.link has cloned the default
\* repository and installed the chart from it
C28_Witness ==
    \E p \in Procs :
        /\ local[p].op = "install"
        /\ local[p].scenario.found /\ local[p].scenario.Link = ""
        /\ Happened(p, "helm_install", TRUE)
        /\ \E i \in Clones(p) : trace[p][i].ok /\ trace[p][i].name = DefaultRepoURL

\* InstallScenario has returned nil
InstallReturnedOK(p) ==
    /\ pc[p] = "done"
    /\ local[p].op = "install"
    /\ result[p] = "ok"

\* C29: whenever InstallScenario(x) returns success the release
\* devopsbeerer-x is deployed, whatever an earlier invocation left behind
C29_SuccessMeansDeployed ==
    \A p \in Procs :
        InstallReturnedOK(p)
        => releases[getHelmReleaseName(local[p].scenarioID)] = "deployed"

\* C30: between two operations of a sequential series of InstallScenario
\* and UninstallScenario calls, a record with phase Running has its
\* release deployed; a failed UninstallScenario does not break this
C30_RunningMeansDeployed ==
    ( Quiescent /\ Exists(ActiveScenarioName)
      /\ store[ActiveScenarioName].phase = "Running" )
    => /\ store[ActiveScenarioName].scenarioId \in CatalogIDs
       /\ releases[getHelmReleaseName(store[ActiveScenarioName].scenarioId)]
             = "deployed"

\* C31: under any interleaving of InstallScenario invocations a record that
\* has a status names the release of its own scenario: no invocation's
\* status update for one scenario lands on the record of another
C31_StatusMatchesSpec ==
    \A n \in DOMAIN store :
        store[n].hasStatus
        => store[n].helmReleaseName = getHelmReleaseName(store[n].scenarioId)

\* C32: under any interleaving of two InstallScenario invocations, the
\* record that a failing install deletes on its way out is the record of
\* its own scenario, never one another invocation created for another
C32_CleanupDeletesOwnRecord ==
    \A p \in Procs :
        ( /\ pc[p] = "done"
          /\ local[p].op = "install"
          /\ result[p] \in InstallFailures
          /\ LastEvent(p).ev = "delete" /\ LastEvent(p).ok )
        => LastEvent(p).arg = local[p].scenarioID

\* no call of the invocation has failed, but for a Helm uninstall (which
\* fails when there is no release to remove)
RanClean(p) ==
    \A i \in Indices(p) : trace[p][i].ev # "helm_uninstall" => trace[p][i].ok

\* C33: when InstallScenario(B) starts while another invocation's
\* InstallScenario(A) is in flight and both return success, exactly one
\* scenario release is deployed afterwards and the record names it
C33_OneReleaseAfterRace ==
    \A p \in Procs, q \in Procs :
        ( /\ InstallReturnedOK(p) /\ InstallReturnedOK(q)
          /\ RanClean(p) /\ RanClean(q)
          /\ local[p].scenarioID # local[q].scenarioID )
        => /\ Cardinality(Deployed) = 1
           /\ Exists(ActiveScenarioName)
           /\ getHelmReleaseName(store[ActiveScenarioName].scenarioId) \in Deployed

\* where InstallScenario goes on after the status update of a phase
AfterStatusUpdate(phase) ==
    CASE phase = "Pending" -> "i_mkdir"
      [] phase = "Deploying" -> "i_namespace"
      [] OTHER -> "i_return"

\* C34: UpdateActiveScenarioStatus changes at most the status of the
\* singleton record: the record's scenarioId and the set of records stay as
\* they are; without a record it fails and creates nothing; and inside
\* InstallScenario a failed status update is not the end of the install,
\* which goes on with the download, the Helm install or the return
C34_StatusOnly ==
    [][\A p \in Procs :
          ( /\ Len(trace'[p]) = Len(trace[p]) + 1
            /\ trace'[p][Len(trace'[p])].ev = "update_status" )
          => LET e == trace'[p][Len(trace'[p])]
             IN  /\ DOMAIN store' = DOMAIN store
                 /\ \A n \in DOMAIN store :
                       store'[n].scenarioId = store[n].scenarioId
                 /\ ~e.ok => store' = store
                 /\ ~Exists(ActiveScenarioName)
                       => /\ ~e.ok
                          /\ local[p].op = "update"
                                => pc'[p] = "done" /\ result'[p] # "ok"
                 /\ local[p].op = "install"
                       => /\ pc'[p] = AfterStatusUpdate(e.arg)
                          /\ result'[p] = result[p]]_vars

\* an install whose three status updates all failed has downloaded the
\* chart, run Helm and returned success
C34_Witness ==
    \E p \in Procs :
        /\ InstallReturnedOK(p)
        /\ Happened(p, "git_clone", TRUE)
        /\ Happened(p, "helm_install", TRUE)
        /\ Cardinality(StatusUpdates(p)) = 3
        /\ \A i \in StatusUpdates(p) : ~trace[p][i].ok

\* C35: within one install the startTime written with Pending is kept by
\* the updates to Deploying and Running; only lastTransitionTime moves on
C35_StartTimeKept ==
    [][\A p \in Procs :
          ( /\ local[p].op = "install"
            /\ Len(trace'[p]) = Len(trace[p]) + 1
            /\ trace'[p][Len(trace'[p])].ev = "update_status"
            /\ trace'[p][Len(trace'[p])].ok
            /\ Wrote(p, "Pending") )
          => /\ store'[ActiveScenarioName].startTime
                   = store[ActiveScenarioName].startTime
             /\ store'[ActiveScenarioName].startTime
                   <= store'[ActiveScenarioName].lastTransitionTime]_vars

\* the path lies in the directory: the directory itself or below it
Inside(path, dir) ==
    /\ Len(path) >= Len(dir)
    /\ SubSeq(path, 1, Len(dir)) = dir

\* C36: whatever the tarball holds, names with '..' elements after the
\* scenario prefix included, every directory and file extractScenario makes
\* lies inside the destination (the directories above the destination are
\* the caller's)
C36_ExtractionConfined ==
    \A p \in Procs : local[p].op = "download" =>
        \A f \in fs[p] :
            f \in Ancestors(DestPath) \/ Inside(f.path, DestPath)

\* the place of a step of the start command in the order of its steps
StartRank(ev) ==
    CASE ev = "list" -> 1
      [] ev = "mkdir_temp" -> 2
      [] ev = "download" -> 3
      [] ev = "helm_uninstall" -> 4
      [] ev = "helm_install" -> 5
      [] OTHER -> 0

\* C37: the start command removes its temporary directory on every way
\* out, and runs catalog lookup, temp-dir creation, chart download and Helm
\* install in this order, each step only when the one before it succeeded
\* (the uninstall of an earlier release that precedes the install may fail)
C37_StartOrderAndCleanup ==
    \A p \in Procs : local[p].op = "start" =>
        /\ pc[p] = "done" => fs[p] = {}
        /\ \A i \in Indices(p) :
              /\ StartRank(trace[p][i].ev) > 0
              /\ i = 1 => trace[p][i].ev = "list"
              /\ i > 1 => /\ StartRank(trace[p][i-1].ev) < StartRank(trace[p][i].ev)
                          /\ trace[p][i-1].ok \/ trace[p][i-1].ev = "helm_uninstall"
              /\ trace[p][i].ev = "helm_install"
                    => \E j \in 1 .. i - 1 :
                          trace[p][j].ev = "download" /\ trace[p][j].ok
              /\ trace[p][i].ev = "download"
                    => trace[p][i-1].ev = "mkdir_temp"
              /\ trace[p][i].ev = "mkdir_temp"
                    => trace[p][i-1].ev = "list"
        /\ ( pc[p] = "done" /\ result[p] = "ok" )
              => Happened(p, "helm_install", TRUE)
        /\ ( trace[p] # << >> /\ ~LastEvent(p).ok
             /\ LastEvent(p).ev # "helm_uninstall" )
              => pc[p] = "done" /\ result[p] # "ok"

\* a start whose chart was downloaded and whose Helm install failed has
\* returned the error, and its temporary directory is gone
C37_Witness ==
    \E p \in Procs :
        /\ local[p].op = "start" /\ pc[p] = "done"
        /\ result[p] = ErrStartInstall
        /\ Happened(p, "download", TRUE)
        /\ Happened(p, "helm_install", FALSE)
        /\ fs[p] = {}

\* the place of a step of DeployInfrastructure in the order of its steps
InfraRank(e) ==
    CASE e.ev = "mkdir_temp" -> 1
      [] e.ev = "git_clone" -> 2
      [] e.ev = "script" /\ e.name = InstallScript -> 3
      [] e.ev = "script" /\ e.name = InitScript -> 4
      [] e.ev = "remove_all" -> 5
      [] OTHER -> 0

\* C38: DeployInfrastructure clones the repository, runs install-k3s.sh,
\* runs init-k3s.sh, in this order; a step runs only when every earlier one
\* succeeded; the first failure is the error returned and ends the run; and
\* nil is returned only when all three succeeded
C38_InfraStepsInOrder ==
    \A p \in Procs : local[p].op = "deploy" =>
        /\ \A i \in Indices(p) :
              /\ InfraRank(trace[p][i]) = i
              /\ i > 1 => trace[p][i-1].ok
        /\ ( pc[p] = "done" /\ result[p] = "ok" )
              => /\ Len(trace[p]) = 5
                 /\ \A i \in 2 .. 4 : trace[p][i].ok
        /\ ( trace[p] # << >> /\ ~LastEvent(p).ok /\ LastEvent(p).ev # "remove_all" )
              => /\ pc[p] = "done"
                 /\ result[p] = CASE InfraRank(LastEvent(p)) = 1 -> ErrInfraMkdir
                                  [] InfraRank(LastEvent(p)) = 2 -> ErrInfraClone
                                  [] InfraRank(LastEvent(p)) = 3 -> ErrInfraInstall
                                  [] OTHER -> ErrInfraInit
        /\ ( pc[p] = "done" /\ result[p] # "ok" )
              => trace[p] # << >> /\ ~LastEvent(p).ok

\* install-k3s.sh has failed after a successful clone: the error of the
\* install step is returned and init-k3s.sh has not run
C38_Witness ==
    \E p \in Procs :
        /\ local[p].op = "deploy" /\ pc[p] = "done"
        /\ result[p] = ErrInfraInstall
        /\ Len(trace[p]) = 3
        /\ trace[p][2].ev = "git_clone" /\ trace[p][2].ok
        /\ trace[p][3].name = InstallScript /\ trace[p][3].arg = "run"
        /\ InitScript \in fs[p]

\* C39: the temporary working directory is gone when DeployInfrastructure
\* returns, on every way out (a removal that itself fails apart)
C39_InfraTempDirRemoved ==
    \A p \in Procs :
        ( /\ local[p].op = "deploy" /\ pc[p] = "done"
          /\ ~Happened(p, "remove_all", FALSE) )
        => fs[p] = {}

====
